---- MODULE Spec2Model ----
(***************************************************************************)
(* Model of the DICOMweb plugin's STOW-RS client (Plugin/DicomWebClient.cpp): *)
(* ParseStowRequest expands the "Resources" of a request into instance ids *)
(* by querying the Orthanc store, StowClient reads every instance, frames  *)
(* it as one part of a multipart/related body, and SendStowChunks POSTs    *)
(* the accumulated parts to the remote server and validates its answer.    *)
(***************************************************************************)
EXTENDS Integers, Sequences, FiniteSets, TLC

(* ------------------------------------------------------------------ *)
(* Bounds of the model                                                 *)
(* ------------------------------------------------------------------ *)

\* Longest "Resources" array of a request.
MaxResources == 2

\* Most instances one request expands to (the store's listings are cut there).
MaxTotal == 2

\* Largest configured "StowMaxInstances".
MaxInstancesLimit == 2

(* ------------------------------------------------------------------ *)
(* JSON values (jsoncpp's Json::Value), as far as the code inspects them *)
(* ------------------------------------------------------------------ *)

JNull == [type |-> "null"]

JString(s) == [type |-> "string", value |-> s]

JArray(items) == [type |-> "array", items |-> items]

JObject(members) == [type |-> "object", members |-> members]

isMember(json, key) == key \in DOMAIN json.members

\* n opaque items of a DICOM sequence
Items(n) == [k \in 1..n |-> JNull]

\* Sequences over S of length at most n
BoundedSeq(S, n) == UNION {[1..k -> S] : k \in 0..n}

(* ------------------------------------------------------------------ *)
(* The Orthanc store, as the REST API answers the plugin               *)
(* ------------------------------------------------------------------ *)

\* Orthanc identifiers of the stored instances
InstanceIds == {"i1", "i2"}

\* Size in bytes of the DICOM file of each stored instance: two files of
\* "i1" exceed 1 MiB, and "i2" with the 102 bytes of its part header is
\* exactly 1 MiB.
FileSize(id) == IF id = "i1" THEN 600000 ELSE 1048474

\* What GET /instances/{id} can answer: the record of an instance, or a
\* value AddInstance refuses.
InstanceRecords ==
  {JObject("ID" :> JString(id)) : id \in InstanceIds}
    \cup {JNull, JObject(<< >>), JObject("ID" :> JNull)}

\* The entries of a listing GET /{level}/{id}/instances
ListingEntries ==
  {JObject("ID" :> JString(id)) : id \in InstanceIds} \cup {JObject(<< >>)}

\* What GET /{level}/{id}/instances can answer when it succeeds: an array of
\* at most `room` entries, or a value that is no array.
Listings(room) ==
  {JArray(s) : s \in BoundedSeq(ListingEntries, room)} \cup {JNull}

(* ------------------------------------------------------------------ *)
(* Pure helpers of DicomWebClient.cpp                                   *)
(* ------------------------------------------------------------------ *)

\* Variant of AddInstance that puts the instance in front of target
AddInstance_Front(target, instance) ==
  IF \/ instance.type # "object"
     \/ ~isMember(instance, "ID")
     \/ instance.members["ID"].type # "string"
  THEN [err |-> "InternalError", target |-> target]
  ELSE [err |-> "none", target |-> <<instance.members["ID"].value>> \o target]

\* Variant of AddInstance that reports a malformed record as a bad request
AddInstance_BadFileFormat(target, instance) ==
  IF \/ instance.type # "object"
     \/ ~isMember(instance, "ID")
     \/ instance.members["ID"].type # "string"
  THEN [err |-> "BadFileFormat", target |-> target]
  ELSE [err |-> "none", target |-> Append(target, instance.members["ID"].value)]

\* AddInstance: append instance["ID"] to target, or throw InternalError
AddInstance(target, instance) ==
  IF \/ instance.type # "object"
     \/ ~isMember(instance, "ID")
     \/ instance.members["ID"].type # "string"
  THEN [err |-> "InternalError", target |-> target]
  ELSE [err |-> "none", target |-> Append(target, instance.members["ID"].value)]

\* The loop of ParseStowRequest over the entries of a listing: AddInstance
\* on each entry in turn, stopping at the first one that throws.
RECURSIVE AddInstances(_, _)
AddInstances(target, entries) ==
  IF entries = << >> THEN [err |-> "none", target |-> target]
  ELSE LET r == AddInstance(target, Head(entries))
       IN  IF r.err # "none" THEN r ELSE AddInstances(r.target, Tail(entries))

\* Orthanc::Toolbox::ToUpperCase / ToLowerCase on the tags the client looks up
ToUpperCase(tag) == IF tag = "0008119a" THEN "0008119A" ELSE tag

ToLowerCase(tag) == IF tag = "0008119A" THEN "0008119a" ELSE tag

\* Variant of GetSequenceSize that looks the tag up in upper case only
GetSequenceSize_UpperOnly(answer, tag, isMandatory) ==
  LET upper == ToUpperCase(tag)
      value == answer.members[upper]
  IN  IF ~isMember(answer, upper)
      THEN [err |-> IF isMandatory THEN "NetworkProtocol" ELSE "none",
            found |-> FALSE, size |-> 0,
            log |-> IF isMandatory THEN "does not contain the mandatory tag"
                    ELSE "none"]
      ELSE IF \/ value.type # "object"
              \/ ~isMember(value, "Value")
              \/ value.members["Value"].type # "array"
      THEN [err |-> "NetworkProtocol", found |-> FALSE, size |-> 0,
            log |-> "Unable to parse STOW-RS JSON response"]
      ELSE [err |-> "none", found |-> TRUE, log |-> "none",
            size |-> Len(value.members["Value"].items)]

\* GetSequenceSize: the number of items of sequence `tag` of the answer.
\* err is the exception thrown, found the boolean returned, size the result,
\* log the error logged.
GetSequenceSize(answer, tag, isMandatory) ==
  LET upper == ToUpperCase(tag)
      lower == ToLowerCase(tag)
      Sized(value) ==
        IF \/ value.type # "object"
           \/ ~isMember(value, "Value")
           \/ value.members["Value"].type # "array"
        THEN [err |-> "NetworkProtocol", found |-> FALSE, size |-> 0,
              log |-> "Unable to parse STOW-RS JSON response"]
        ELSE [err |-> "none", found |-> TRUE, log |-> "none",
              size |-> Len(value.members["Value"].items)]
  IN  IF isMember(answer, upper) THEN Sized(answer.members[upper])
      ELSE IF isMember(answer, lower) THEN Sized(answer.members[lower])
      ELSE IF isMandatory
      THEN [err |-> "NetworkProtocol", found |-> FALSE, size |-> 0,
            log |-> "does not contain the mandatory tag"]
      ELSE [err |-> "none", found |-> FALSE, size |-> 0, log |-> "none"]

\* Variant of FlushCondition in which a limit of 0 is a limit like another
FlushCondition_NoZeroCheck(force, countInstances, numBytes, maxInstances, maxSize) ==
  \/ (force /\ countInstances > 0)
  \/ countInstances >= maxInstances
  \/ numBytes >= maxSize

\* Variant of FlushCondition in which the forced call sends even no instance
FlushCondition_ForceAlone(force, countInstances, numBytes, maxInstances, maxSize) ==
  \/ force
  \/ (maxInstances # 0 /\ countInstances >= maxInstances)
  \/ (maxSize # 0 /\ numBytes >= maxSize)

\* The condition under which SendStowChunks sends the accumulated parts
FlushCondition(force, countInstances, numBytes, maxInstances, maxSize) ==
  \/ (force /\ countInstances > 0)
  \/ (maxInstances # 0 /\ countInstances >= maxInstances)
  \/ (maxSize # 0 /\ numBytes >= maxSize)

\* Variant of ValidateAnswer that accepts any number of referenced instances
ValidateAnswer_AnyCount(answerBody, countInstances) ==
  LET Throw(log) == [err |-> "NetworkProtocol", log |-> log]
  IN  IF \/ ~answerBody.parses
         \/ answerBody.json.type # "object"
         \/ ~isMember(answerBody.json, "00081199")
      THEN Throw("Unable to parse STOW-RS JSON response")
      ELSE LET response == answerBody.json
               referenced == GetSequenceSize(response, "00081199", TRUE)
               failed == GetSequenceSize(response, "00081198", FALSE)
               other == GetSequenceSize(response, "0008119A", FALSE)
           IN  IF referenced.err # "none" THEN referenced
               ELSE IF failed.err # "none" THEN failed
               ELSE IF failed.found /\ failed.size # 0
               THEN Throw("items in its Failed SOP Sequence")
               ELSE IF other.err # "none" THEN other
               ELSE IF other.found /\ other.size # 0
               THEN Throw("items in its Other Failures Sequence")
               ELSE [err |-> "none", log |-> "none"]

\* The checks SendStowChunks makes on the body the remote answered to a POST
\* of countInstances instances: the exception thrown or "none", and the
\* error logged.
ValidateAnswer(answerBody, countInstances) ==
  LET Throw(log) == [err |-> "NetworkProtocol", log |-> log]
  IN  IF \/ ~answerBody.parses
         \/ answerBody.json.type # "object"
         \/ ~isMember(answerBody.json, "00081199")
      THEN Throw("Unable to parse STOW-RS JSON response")
      ELSE LET response == answerBody.json
               referenced == GetSequenceSize(response, "00081199", TRUE)
               failed == GetSequenceSize(response, "00081198", FALSE)
               other == GetSequenceSize(response, "0008119A", FALSE)
           IN  IF referenced.err # "none" THEN referenced
               ELSE IF ~referenced.found \/ referenced.size # countInstances
               THEN Throw("The STOW-RS server was only able to receive")
               ELSE IF failed.err # "none" THEN failed
               ELSE IF failed.found /\ failed.size # 0
               THEN Throw("items in its Failed SOP Sequence")
               ELSE IF other.err # "none" THEN other
               ELSE IF other.found /\ other.size # 0
               THEN Throw("items in its Other Failures Sequence")
               ELSE [err |-> "none", log |-> "none"]

(* ------------------------------------------------------------------ *)
(* Multipart framing (Orthanc::ChunkedBuffer holding the parts)         *)
(* ------------------------------------------------------------------ *)

\* Variant of PartHeader without the empty line that ends the header
PartHeader_NoEmptyLine(boundary, size) ==
  "\r\n--" \o boundary \o "\r\n" \o
  "Content-Type: application/dicom\r\n" \o
  "Content-Length: " \o ToString(size) \o
  "\r\n"

\* The header StowClient writes before each DICOM file
PartHeader(boundary, size) ==
  "\r\n--" \o boundary \o "\r\n" \o
  "Content-Type: application/dicom\r\n" \o
  "Content-Length: " \o ToString(size) \o
  "\r\n\r\n"

\* Variant of CloseDelimiter that ends the body on another token
CloseDelimiter_OtherToken(boundary) == "\r\n--" \o boundary \o "-2--\r\n"

\* The terminator SendStowChunks writes after the last part
CloseDelimiter(boundary) == "\r\n--" \o boundary \o "--\r\n"

\* The chunks of the buffer: the header of a part, the DICOM file of the
\* instance at position `pos` of the list of instances, the terminator.
\* size is the number of bytes of the chunk.
HeaderChunk(boundary, length) ==
  [kind |-> "header", boundary |-> boundary, length |-> length,
   text |-> PartHeader(boundary, length),
   size |-> Len(PartHeader(boundary, length))]

DataChunk(pos, id, size) ==
  [kind |-> "data", pos |-> pos, id |-> id, size |-> size]

CloseChunk(boundary) ==
  [kind |-> "close", boundary |-> boundary,
   text |-> CloseDelimiter(boundary),
   size |-> Len(CloseDelimiter(boundary))]

\* ChunkedBuffer::Flatten: what it leaves in the buffer
Flatten(chunks) == << >>

\* ChunkedBuffer::GetNumBytes
RECURSIVE GetNumBytes(_)
GetNumBytes(chunks) ==
  IF chunks = << >> THEN 0 ELSE Head(chunks).size + GetNumBytes(Tail(chunks))

(* ------------------------------------------------------------------ *)
(* The request, the configuration and the remote server                *)
(* ------------------------------------------------------------------ *)

\* The entries a "Resources" array can hold: an Orthanc identifier, the
\* empty string, or a value that is no string.
ResourceEntries == {JString("a"), JString(""), JNull}

\* The bodies of a request to the STOW-RS client: bytes that are no JSON, a
\* JSON value that is no object, an object without "Resources", an object
\* whose "Resources" is no array, and the well-formed bodies.
RequestBodies ==
  {[parses |-> FALSE, json |-> JNull],
   [parses |-> TRUE, json |-> JArray(<< >>)],
   [parses |-> TRUE, json |-> JObject(<< >>)],
   [parses |-> TRUE, json |-> JObject("Resources" :> JString("a"))]}
  \cup {[parses |-> TRUE, json |-> JObject("Resources" :> JArray(r))] :
          r \in BoundedSeq(ResourceEntries, MaxResources)}

\* The n-th token OrthancPluginGenerateUuid returns: each call a new one
Uuid(n) == "6f1c2a9e-0b1d-4c3e-8f5a-00000000000" \o ToString(n)

\* A DICOM sequence of n items in the DICOM JSON model
SequenceOf(n) == JObject("Value" :> JArray(Items(n)))

\* The values the remote can give the Referenced SOP Sequence after a POST
\* of m instances: a sequence of as many items, of one less or one more, or
\* a member whose "Value" is missing or no array.
ReferencedValues(m) ==
  {SequenceOf(n) : n \in {m - 1, m, m + 1} \ {-1}}
    \cup {JObject(<< >>), JObject("Value" :> JNull)}

\* The members of the JSON object the remote answers to a POST of m
\* instances: no sequence at all; the Referenced SOP Sequence alone; the m
\* instances referenced and a Failed SOP Sequence, an Other Failures
\* Sequence spelled in upper or in lower case, or both; all but one
\* instance referenced and the last one in the Failed SOP Sequence.
ResponseMembers(m) ==
  LET ref == "00081199" :> SequenceOf(m)
      Some == {SequenceOf(0), SequenceOf(1)}
  IN  {<< >>}
        \cup {"00081199" :> v : v \in ReferencedValues(m)}
        \cup {ref @@ ("00081198" :> v) : v \in Some \cup {JNull}}
        \cup {ref @@ (key :> v) : key \in {"0008119A", "0008119a"}, v \in Some}
        \cup {ref @@ ("00081198" :> SequenceOf(0)) @@ ("0008119A" :> v) : v \in Some}
        \cup {("00081199" :> SequenceOf(n)) @@ ("00081198" :> SequenceOf(1)) :
                n \in {m - 1} \ {-1}}

\* The bodies the remote can answer to a POST of m instances: bytes that are
\* no JSON, a JSON value that is no object, or an object
AnswerBodies(m) ==
  {[parses |-> FALSE, json |-> JNull], [parses |-> TRUE, json |-> JArray(<< >>)]}
  \cup {[parses |-> TRUE, json |-> JObject(members)] : members \in ResponseMembers(m)}

\* No answer is being validated
NoAnswer == [parses |-> FALSE, json |-> JString("none")]

\* One GET of the store's REST API: whether it succeeds, and the JSON answered
Answered(json) == [ok |-> TRUE, json |-> json]

NotFound == [ok |-> FALSE, json |-> JNull]

\* The URIs ParseStowRequest can query for one resource
ResourceUris(resource) ==
  {"/instances/" \o resource,
   "/series/" \o resource, "/series/" \o resource \o "/instances",
   "/studies/" \o resource, "/studies/" \o resource \o "/instances",
   "/patients/" \o resource, "/patients/" \o resource \o "/instances"}

\* What the store can answer to the GETs about one resource, as a function
\* of the URI.  A level either is not found, or is found and its listing
\* fails, or is found and listed; a GET that the answers to the earlier
\* ones keep ParseStowRequest from issuing is left NotFound.
StoreAnswers(resource, room) ==
  LET none == [u \in ResourceUris(resource) |-> NotFound]
      Miss(base, level) ==
        {base, [base EXCEPT ![level \o resource] = Answered(JObject(<< >>))]}
      Hit(base, level) ==
        {[base EXCEPT ![level \o resource] = Answered(JObject(<< >>)),
                      ![level \o resource \o "/instances"] = Answered(v)] :
           v \in Listings(room)}
      noSeries == Miss(none, "/series/")
      noStudy == UNION {Miss(b, "/studies/") : b \in noSeries}
      noPatient == UNION {Miss(b, "/patients/") : b \in noStudy}
  IN  {[none EXCEPT !["/instances/" \o resource] = Answered(v)] : v \in InstanceRecords}
        \cup Hit(none, "/series/")
        \cup UNION {Hit(b, "/studies/") : b \in noSeries}
        \cup UNION {Hit(b, "/patients/") : b \in noStudy}
        \cup noPatient

(* ------------------------------------------------------------------ *)
(* State                                                               *)
(* ------------------------------------------------------------------ *)

VARIABLES
  method,          \* request->method
  body,            \* request->body
  maxInstances,    \* configuration option "StowMaxInstances"
  stowMaxSize,     \* configuration option "StowMaxSize", in MiB
  pc,              \* where the handler is
  boundary,        \* StowClient: the boundary of the multipart bodies
  mime,            \* StowClient: httpHeaders["Content-Type"]
  i,               \* ParseStowRequest: index of the resource being expanded
  instances,       \* the list of instances to send
  storeLog,        \* the GETs issued to the store for the current resource
  it,              \* StowClient: position in instances of the send loop
  chunks,          \* StowClient: the parts accumulated since the last POST
  countInstances,  \* StowClient: the instances accumulated since the last POST
  force,           \* SendStowChunks: its argument
  answerBody,      \* SendStowChunks: the body the remote answered
  posts,           \* the POSTs issued to the remote so far
  filesRead,       \* the reads of DICOM files from the store, and how each ended
  uuids,           \* the tokens OrthancPluginGenerateUuid has returned so far
  logged,          \* the error SendStowChunks logged, or "none"
  error,           \* the exception that ended the request, or "none"
  answer           \* what was answered to the caller, or "none"

\* The state of StowCallback, the STOW-RS server (StowRs.cpp)
VARIABLES
  stowPc,          \* where StowCallback is
  accept,          \* the "Accept" header of the request, or NoHeader
  contentType,     \* the "Content-Type" header of the request, or NoHeader
  expectedStudy,   \* StowCallback: expectedStudy
  isXml,           \* StowCallback: isXml
  items,           \* StowCallback: the parts ParseMultipartBody decoded
  stowI,           \* StowCallback: index i of the loop over the parts
  isFirst,         \* StowCallback: isFirst
  result,          \* StowCallback: the DICOM_TAG_RETRIEVE_URL set in `result`
  success,         \* StowCallback: the Referenced SOP Sequence
  failed,          \* StowCallback: the Failed SOP Sequence
  written,         \* the POSTs of parts to /instances of the store
  stowAnswer       \* what StowCallback answered, or NoStowAnswer

\* The state of RetrieveFromServer, the WADO-RS retrieve client
\* (DicomWebClient.cpp)
VARIABLES
  wadoPc,          \* where RetrieveFromServer is
  retrieveMethod,  \* the HTTP method of the request
  retrieveBody,    \* the JSON body of the request
  retrieveI,       \* RetrieveFromServer: index i of the loop over Resources
  getLog,          \* the URIs of the GETs sent to the remote server
  answerHeaders,   \* RetrieveFromServerInternal: answerHeaders, up to the
                   \* last read of them
  wadoParts,       \* RetrieveFromServerInternal: parts
  wadoP,           \* RetrieveFromServerInternal: index i of the loop over parts
  posted,          \* the number of POSTs of parts to /instances of the store
  wadoInstances,   \* RetrieveFromServer: instances
  wadoResult,      \* RetrieveFromServerInternal: result, the answer of the
                   \* store to the POST of the current part
  wadoError,       \* the exception that ended the request, or "none"
  wadoAnswer       \* what RetrieveFromServer answered, or NoStowAnswer

\* The state of a round trip through the multipart codec: the framing
\* StowClient and SendStowChunks write, decoded by ParseMultipartBody
VARIABLES
  codecPc,         \* where the round trip is
  codecBoundary,   \* the boundary of the framing and of the decoding
  codecParts,      \* the DICOM files to frame, in order
  codecBody,       \* the body made of the chunks written
  codecItems       \* what ParseMultipartBody made of the body

\* The state of two requests to StowClient handled at once by two threads
\* of the host: the local variables of each call, and what the calls share
VARIABLES
  pcOf,              \* where each call of StowClient is
  instancesOf,       \* the list of instances ParseStowRequest gave each call
  boundaryAt,        \* the boundary of each call
  itOf,              \* the position of each call in its list
  chunksOf,          \* the buffer of each call
  countInstancesOf,  \* the count of instances of each call
  forceOf,           \* the force argument of the running call of SendStowChunks
  postsOf,           \* the POSTs each call has sent to the remote
  generated,         \* the number of UUIDs the host has generated
  limits,            \* the configuration: maxInstances, and StowMaxSize in MB
  absent             \* the instances whose file the store does not find

\* The variables of the STOW-RS client, those of the STOW-RS server, those
\* of the WADO-RS retrieve client, those of the codec and those of the two
\* concurrent requests
client ==
  <<method, body, maxInstances, stowMaxSize, pc, boundary, mime, i, instances,
    storeLog, it, chunks, countInstances, force, answerBody, posts, filesRead,
    uuids, logged, error, answer>>

stow ==
  <<stowPc, accept, contentType, expectedStudy, isXml, items, stowI, isFirst,
    result, success, failed, written, stowAnswer>>

wado ==
  <<wadoPc, retrieveMethod, retrieveBody, retrieveI, getLog, answerHeaders,
    wadoParts, wadoP, posted, wadoInstances, wadoResult, wadoError,
    wadoAnswer>>

codec == <<codecPc, codecBoundary, codecParts, codecBody, codecItems>>

concurrent ==
  <<pcOf, instancesOf, boundaryAt, itOf, chunksOf, countInstancesOf, forceOf,
    postsOf, generated, limits, absent>>

vars == <<client, stow, wado, codec, concurrent>>

\* A header the request does not carry
NoHeader == [present |-> FALSE, value |-> ""]

Header(value) == [present |-> TRUE, value |-> value]

\* Nothing answered yet
NoStowAnswer == [status |-> 0]

\* StowCallback is not running: the state of its variables in a run of
\* another handler
StowIdle ==
  /\ stowPc = "idle"
  /\ accept = NoHeader
  /\ contentType = NoHeader
  /\ expectedStudy = ""
  /\ isXml = FALSE
  /\ items = << >>
  /\ stowI = 0
  /\ isFirst = TRUE
  /\ result = "none"
  /\ success = << >>
  /\ failed = << >>
  /\ written = << >>
  /\ stowAnswer = NoStowAnswer

\* The two requests handled at once
Requests == {1, 2}

\* No concurrent requests are running
ConcurrentIdle ==
  /\ pcOf = [q \in Requests |-> "idle"]
  /\ instancesOf = [q \in Requests |-> << >>]
  /\ boundaryAt = [q \in Requests |-> ""]
  /\ itOf = [q \in Requests |-> 0]
  /\ chunksOf = [q \in Requests |-> << >>]
  /\ countInstancesOf = [q \in Requests |-> 0]
  /\ forceOf = [q \in Requests |-> FALSE]
  /\ postsOf = [q \in Requests |-> << >>]
  /\ generated = 0
  /\ limits = [maxInstances |-> 0, stowMaxSize |-> 0]
  /\ absent = {}

\* No round trip through the codec is running
CodecIdle ==
  /\ codecPc = "idle"
  /\ codecBoundary = ""
  /\ codecParts = << >>
  /\ codecBody = ""
  /\ codecItems = << >>

\* RetrieveFromServer is not running
WadoIdle ==
  /\ wadoPc = "idle"
  /\ retrieveMethod = "POST"
  /\ retrieveBody = JNull
  /\ retrieveI = 0
  /\ getLog = << >>
  /\ answerHeaders = << >>
  /\ wadoParts = << >>
  /\ wadoP = 0
  /\ posted = 0
  /\ wadoInstances = {}
  /\ wadoResult = JNull
  /\ wadoError = "none"
  /\ wadoAnswer = NoStowAnswer

request == <<method, body, maxInstances, stowMaxSize>>

\* maxSize of SendStowChunks
MaxSize == stowMaxSize * 1024 * 1024

Init ==
  /\ method \in {"POST", "GET"}
  /\ body \in RequestBodies
  /\ maxInstances \in 0..MaxInstancesLimit
  /\ stowMaxSize \in {0, 1}
  /\ pc = "start"
  /\ boundary = ""
  /\ mime = ""
  /\ i = 0
  /\ instances = << >>
  /\ storeLog = << >>
  /\ it = 0
  /\ chunks = << >>
  /\ countInstances = 0
  /\ force = FALSE
  /\ answerBody = NoAnswer
  /\ posts = << >>
  /\ filesRead = << >>
  /\ uuids = 0
  /\ logged = "none"
  /\ error = "none"
  /\ answer = "none"
  /\ StowIdle
  /\ WadoIdle
  /\ CodecIdle
  /\ ConcurrentIdle

\* body[RESOURCES] of ParseStowRequest
Resources == body.json.members["Resources"].items

(* ------------------------------------------------------------------ *)
(* ParseStowRequest                                                    *)
(* ------------------------------------------------------------------ *)

\* Variant of ExpandResource that asks for the patient, the study, the
\* series and at last the instance
ExpandResource_PatientFirst(target, entry, store) ==
  IF entry.type # "string"
  THEN [err |-> "BadFileFormat", target |-> target, log |-> << >>]
  ELSE IF entry.value = ""
  THEN [err |-> "UnknownResource", target |-> target, log |-> << >>]
  ELSE
    LET resource == entry.value
        Get(uri) == store[uri].ok
        Call(uri) == [uri |-> uri, ok |-> store[uri].ok, json |-> store[uri].json]
        Level(level) ==
          Get(level \o resource) /\ Get(level \o resource \o "/instances")
        Calls(level) ==
          IF Get(level \o resource)
          THEN <<Call(level \o resource), Call(level \o resource \o "/instances")>>
          ELSE <<Call(level \o resource)>>
        instance == "/instances/" \o resource
    IN  IF Level("/patients/") \/ Level("/studies/") \/ Level("/series/")
        THEN LET level == IF Level("/patients/") THEN "/patients/"
                          ELSE IF Level("/studies/") THEN "/studies/"
                          ELSE "/series/"
                 log == Calls("/patients/") \o
                        (IF level = "/patients/" THEN << >>
                         ELSE Calls("/studies/") \o
                              (IF level = "/studies/" THEN << >>
                               ELSE Calls("/series/")))
                 tmp == store[level \o resource \o "/instances"].json
             IN  IF tmp.type # "array"
                 THEN [err |-> "InternalError", target |-> target, log |-> log]
                 ELSE LET r == AddInstances(target, tmp.items)
                      IN  [err |-> r.err, target |-> r.target, log |-> log]
        ELSE LET log == Calls("/patients/") \o Calls("/studies/") \o
                        Calls("/series/") \o <<Call(instance)>>
             IN  IF Get(instance)
                 THEN LET r == AddInstance(target, store[instance].json)
                      IN  [err |-> r.err, target |-> r.target, log |-> log]
                 ELSE [err |-> "UnknownResource", target |-> target, log |-> log]

\* One iteration of the loop of ParseStowRequest on the entry `entry` of the
\* array of resources, `store` giving the answer of the store to each GET:
\* the exception thrown or "none", the list of instances afterwards, and the
\* GETs issued, in order, with their answers.
ExpandResource(target, entry, store) ==
  IF entry.type # "string"
  THEN [err |-> "BadFileFormat", target |-> target, log |-> << >>]
  ELSE IF entry.value = ""
  THEN [err |-> "UnknownResource", target |-> target, log |-> << >>]
  ELSE
    LET resource == entry.value
        Get(uri) == store[uri].ok
        Call(uri) == [uri |-> uri, ok |-> store[uri].ok, json |-> store[uri].json]
        Level(level) ==
          Get(level \o resource) /\ Get(level \o resource \o "/instances")
        Calls(level) ==
          IF Get(level \o resource)
          THEN <<Call(level \o resource), Call(level \o resource \o "/instances")>>
          ELSE <<Call(level \o resource)>>
        instance == "/instances/" \o resource
    IN  IF Get(instance)
        THEN LET r == AddInstance(target, store[instance].json)
             IN  [err |-> r.err, target |-> r.target, log |-> <<Call(instance)>>]
        ELSE IF Level("/series/") \/ Level("/studies/") \/ Level("/patients/")
        THEN LET level == IF Level("/series/") THEN "/series/"
                          ELSE IF Level("/studies/") THEN "/studies/"
                          ELSE "/patients/"
                 log == <<Call(instance)>> \o Calls("/series/") \o
                        (IF level = "/series/" THEN << >>
                         ELSE Calls("/studies/") \o
                              (IF level = "/studies/" THEN << >>
                               ELSE Calls("/patients/")))
                 tmp == store[level \o resource \o "/instances"].json
             IN  IF tmp.type # "array"
                 THEN [err |-> "InternalError", target |-> target, log |-> log]
                 ELSE LET r == AddInstances(target, tmp.items)
                      IN  [err |-> r.err, target |-> r.target, log |-> log]
        ELSE [err |-> "UnknownResource", target |-> target,
              log |-> <<Call(instance)>> \o Calls("/series/") \o
                      Calls("/studies/") \o Calls("/patients/")]

\* StowClient up to the loop of ParseStowRequest: the method is checked, the
\* boundary generated, the Content-Type header set and the body parsed.
Begin ==
  /\ pc = "start"
  /\ IF method # "POST"
     THEN /\ pc' = "done"
          /\ answer' = "MethodNotAllowed"
          /\ UNCHANGED <<boundary, mime, i, error, uuids>>
     ELSE LET uuid == Uuid(uuids + 1)
          IN
            /\ uuids' = uuids + 1
            /\ boundary' = uuid
            /\ mime' = "multipart/related; type=application/dicom; boundary=" \o uuid
            /\ IF \/ ~body.parses
                  \/ body.json.type # "object"
                  \/ ~isMember(body.json, "Resources")
                  \/ body.json.members["Resources"].type # "array"
               THEN pc' = "error" /\ error' = "BadFileFormat" /\ i' = i
               ELSE pc' = "parse" /\ error' = error /\ i' = 1
            /\ answer' = answer
  /\ UNCHANGED <<stow, wado, codec, concurrent, request, instances, storeLog, it, chunks, countInstances,
                 force, answerBody, posts, filesRead, logged>>

\* Variant of ParseResource that leaves out an entry it cannot expand
ParseResource_SkipInvalid ==
  /\ pc = "parse"
  /\ i <= Len(Resources)
  /\ LET entry == Resources[i]
         stores == IF entry.type = "string" /\ entry.value # ""
                   THEN StoreAnswers(entry.value, MaxTotal - Len(instances))
                   ELSE {<< >>}
     IN  \E store \in stores :
           LET r == ExpandResource(instances, entry, store)
           IN  /\ instances' = r.target
               /\ storeLog' = r.log
               /\ pc' = pc /\ error' = error /\ i' = i + 1
  /\ UNCHANGED <<stow, wado, codec, concurrent, request, boundary, mime, it, chunks, countInstances, force,
                 answerBody, posts, filesRead, uuids, logged, answer>>

\* One iteration of the loop of ParseStowRequest
ParseResource ==
  /\ pc = "parse"
  /\ i <= Len(Resources)
  /\ LET entry == Resources[i]
         stores == IF entry.type = "string" /\ entry.value # ""
                   THEN StoreAnswers(entry.value, MaxTotal - Len(instances))
                   ELSE {<< >>}
     IN  \E store \in stores :
           LET r == ExpandResource(instances, entry, store)
           IN  /\ instances' = r.target
               /\ storeLog' = r.log
               /\ IF r.err # "none"
                  THEN pc' = "error" /\ error' = r.err /\ i' = i
                  ELSE pc' = pc /\ error' = error /\ i' = i + 1
  /\ UNCHANGED <<stow, wado, codec, concurrent, request, boundary, mime, it, chunks, countInstances, force,
                 answerBody, posts, filesRead, uuids, logged, answer>>

\* ParseStowRequest returns and the loop of StowClient starts
ParseDone ==
  /\ pc = "parse"
  /\ i > Len(Resources)
  /\ pc' = "send"
  /\ it' = 1
  /\ storeLog' = << >>
  /\ UNCHANGED <<stow, wado, codec, concurrent, request, boundary, mime, i, instances, chunks, countInstances,
                 force, answerBody, posts, filesRead, uuids, logged, error, answer>>

(* ------------------------------------------------------------------ *)
(* SendStowChunks and the loop of StowClient                           *)
(* ------------------------------------------------------------------ *)

\* What MemoryBuffer::RestApiGet("/instances/{id}/file") can do: return true
\* with the file, return false (the store does not find the file), or throw
\* (any other error of the store).
FileOutcomes == {"file", "false", "throws"}

\* What OrthancPlugins::CallServer can do with a POST: throw (the HTTP
\* exchange failed), or return the body the remote answered.
CallServerOutcomes(m) ==
  {[threw |-> TRUE, body |-> NoAnswer]}
    \cup {[threw |-> FALSE, body |-> a] : a \in AnswerBodies(m)}

\* The return of SendStowChunks to StowClient: after the call in the loop the
\* loop goes on, after the last call the request is answered "{}".
Return(forceIn) ==
  IF forceIn
  THEN pc' = "done" /\ answer' = "{}\n"
  ELSE pc' = "send" /\ answer' = answer

\* SendStowChunks, from its call by StowClient with the parts chunksIn and
\* their number countIn to the answer of the remote.  When the condition
\* holds, the terminator is added, the buffer flattened and the body POSTed
\* to "studies" under the headers of the request; count is the number of
\* instances the answer will be checked against.
SendStowChunks(chunksIn, countIn, forceIn) ==
  /\ force' = forceIn
  /\ countInstances' = countIn
  /\ IF FlushCondition(forceIn, countIn, GetNumBytes(chunksIn), maxInstances, MaxSize)
     THEN /\ chunks' = Flatten(Append(chunksIn, CloseChunk(boundary)))
          /\ posts' = Append(posts,
                             [uri |-> "studies",
                              contentType |-> mime,
                              body |-> Append(chunksIn, CloseChunk(boundary)),
                              count |-> countIn])
          /\ \E outcome \in CallServerOutcomes(countIn) :
               IF outcome.threw
               THEN pc' = "error" /\ error' = "HttpError" /\ answerBody' = answerBody
               ELSE pc' = "validate" /\ error' = error /\ answerBody' = outcome.body
          /\ answer' = answer
     ELSE /\ chunks' = chunksIn
          /\ UNCHANGED <<posts, answerBody, error>>
          /\ Return(forceIn)

\* Variant of ValidateResponse that goes on whatever the remote answered
ValidateResponse_Continue ==
  /\ pc = "validate"
  /\ answerBody' = NoAnswer
  /\ countInstances' = 0
  /\ Return(force)
  /\ UNCHANGED <<stow, wado, codec, concurrent, request, boundary, mime, i, instances, storeLog, it, chunks,
                 force, posts, filesRead, uuids, error, logged>>

\* Variant of ValidateResponse that leaves the count of instances as it is
ValidateResponse_NoReset ==
  /\ pc = "validate"
  /\ answerBody' = NoAnswer
  /\ LET r == ValidateAnswer(answerBody, countInstances)
     IN  IF r.err # "none"
         THEN /\ pc' = "error"
              /\ error' = r.err
              /\ logged' = r.log
              /\ UNCHANGED <<countInstances, answer>>
         ELSE /\ UNCHANGED <<countInstances, error, logged>>
              /\ Return(force)
  /\ UNCHANGED <<stow, wado, codec, concurrent, request, boundary, mime, i, instances, storeLog, it, chunks,
                 force, posts, filesRead, uuids>>

\* SendStowChunks, from the answer of the remote on: the answer is validated
\* and the count of instances reset.
ValidateResponse ==
  /\ pc = "validate"
  /\ answerBody' = NoAnswer
  /\ LET r == ValidateAnswer(answerBody, countInstances)
     IN  IF r.err # "none"
         THEN /\ pc' = "error"
              /\ error' = r.err
              /\ logged' = r.log
              /\ UNCHANGED <<countInstances, answer>>
         ELSE /\ countInstances' = 0
              /\ UNCHANGED <<error, logged>>
              /\ Return(force)
  /\ UNCHANGED <<stow, wado, codec, concurrent, request, boundary, mime, i, instances, storeLog, it, chunks,
                 force, posts, filesRead, uuids>>

\* Variant of SendInstance that skips an instance whose file the store
\* fails to read
SendInstance_Swallow ==
  /\ pc = "send"
  /\ it <= Len(instances)
  /\ it' = it + 1
  /\ \E got \in FileOutcomes :
       /\ filesRead' = Append(filesRead, [pos |-> it, got |-> got])
       /\ IF got = "file"
          THEN LET id == instances[it]
                   size == FileSize(id)
               IN  SendStowChunks(chunks \o <<HeaderChunk(boundary, size),
                                              DataChunk(it, id, size)>>,
                                  countInstances + 1, FALSE)
          ELSE UNCHANGED <<chunks, countInstances, force, answerBody, posts, pc,
                           error, answer>>
  /\ UNCHANGED <<stow, wado, codec, concurrent, request, boundary, mime, i, instances, storeLog, uuids, logged>>

\* One iteration of the loop of StowClient: the file of the next instance is
\* read, framed as a part and added to the buffer, and SendStowChunks called.
SendInstance ==
  /\ pc = "send"
  /\ it <= Len(instances)
  /\ it' = it + 1
  /\ \E got \in FileOutcomes :
       /\ filesRead' = Append(filesRead, [pos |-> it, got |-> got])
       /\ CASE got = "file" ->
                 LET id == instances[it]
                     size == FileSize(id)
                 IN  SendStowChunks(chunks \o <<HeaderChunk(boundary, size),
                                                DataChunk(it, id, size)>>,
                                    countInstances + 1, FALSE)
            [] got = "false" ->
                 UNCHANGED <<chunks, countInstances, force, answerBody, posts, pc,
                             error, answer>>
            [] OTHER ->
                 /\ pc' = "error"
                 /\ error' = "StoreError"
                 /\ UNCHANGED <<chunks, countInstances, force, answerBody, posts,
                                answer>>
  /\ UNCHANGED <<stow, wado, codec, concurrent, request, boundary, mime, i, instances, storeLog, uuids, logged>>

\* Variant of FinalFlush that answers without the last call of SendStowChunks
FinalFlush_NoFlush ==
  /\ pc = "send"
  /\ it > Len(instances)
  /\ pc' = "done"
  /\ answer' = "{}\n"
  /\ UNCHANGED <<stow, wado, codec, concurrent, request, boundary, mime, i, instances, storeLog, it, filesRead,
                 uuids, logged, chunks, countInstances, force, answerBody,
                 posts, error>>

\* The end of StowClient: the last call of SendStowChunks, and the answer
FinalFlush ==
  /\ pc = "send"
  /\ it > Len(instances)
  /\ SendStowChunks(chunks, countInstances, TRUE)
  /\ UNCHANGED <<stow, wado, codec, concurrent, request, boundary, mime, i, instances, storeLog, it, filesRead,
                 uuids, logged>>

Next ==
  \/ Begin
  \/ ParseResource
  \/ ParseDone
  \/ SendInstance
  \/ FinalFlush
  \/ ValidateResponse

Spec == Init /\ [][Next]_vars

(* ------------------------------------------------------------------ *)
(* What the properties below observe                                   *)
(* ------------------------------------------------------------------ *)

\* The positions, in the list of instances, of the DICOM files among parts
DataPositions(parts) ==
  LET data == SelectSeq(parts, LAMBDA c : c.kind = "data")
  IN  [k \in 1..Len(data) |-> data[k].pos]

\* The positions of the instances whose file was read and added to the buffer
AddedPositions ==
  LET read == SelectSeq(filesRead, LAMBDA f : f.got = "file")
  IN  [k \in 1..Len(read) |-> read[k].pos]

\* The positions of the DICOM files the POSTs ps carried, in the order sent
RECURSIVE SentPositions(_)
SentPositions(ps) ==
  IF ps = << >> THEN << >>
  ELSE DataPositions(Head(ps).body) \o SentPositions(Tail(ps))

\* The sum of the counts of instances of the POSTs ps
RECURSIVE SumOfCounts(_)
SumOfCounts(ps) ==
  IF ps = << >> THEN 0 ELSE Head(ps).count + SumOfCounts(Tail(ps))

\* The number of bytes of the parts, counted chunk by chunk
BytesOf(parts) ==
  LET Bytes(c) == IF c.kind = "data" THEN c.size ELSE Len(c.text)
      RECURSIVE Sum(_)
      Sum(k) == IF k = 0 THEN 0 ELSE Bytes(parts[k]) + Sum(k - 1)
  IN  Sum(Len(parts))

\* A step is the last call of SendStowChunks, with force
ForcedCall == pc = "send" /\ it > Len(instances)

\* A step reads a file, adds it and calls SendStowChunks without force
LoopCall ==
  /\ pc = "send"
  /\ it <= Len(instances)
  /\ Len(filesRead') = Len(filesRead) + 1
  /\ filesRead'[Len(filesRead')].got = "file"

\* The buffer and the count SendStowChunks is called with in such a step
CallChunks ==
  IF ForcedCall THEN chunks
  ELSE chunks \o
       <<[kind |-> "header", boundary |-> boundary,
          length |-> FileSize(instances[it]),
          text |-> "\r\n--" \o boundary \o "\r\n" \o
                   "Content-Type: application/dicom\r\n" \o
                   "Content-Length: " \o ToString(FileSize(instances[it])) \o
                   "\r\n\r\n",
          size |-> Len(boundary) + 59 + Len(ToString(FileSize(instances[it])))],
         [kind |-> "data", pos |-> it, id |-> instances[it],
          size |-> FileSize(instances[it])]>>

CallCount == IF ForcedCall THEN countInstances ELSE countInstances + 1

(* ------------------------------------------------------------------ *)
(* C1                                                                  *)
(* ------------------------------------------------------------------ *)

\* C1: every call of SendStowChunks sends one POST if and only if it is
\* forced with at least one instance counted, or the limit of instances is
\* not 0 and the count has reached it, or the limit of bytes is not 0 and
\* the bytes of the buffer have reached it; a limit of 0 triggers no POST by
\* itself; and a call under none of the three conditions sends nothing and
\* leaves the count and the buffer as they were.
C1_FlushIffCondition ==
  [][(ForcedCall \/ LoopCall) =>
       LET bytes == BytesOf(CallChunks)
           byForce == ForcedCall /\ CallCount > 0
           byCount == maxInstances # 0 /\ CallCount >= maxInstances
           byBytes == stowMaxSize # 0 /\ bytes >= stowMaxSize * 1048576
           sent == Len(posts') = Len(posts) + 1
       IN  /\ sent <=> (byForce \/ byCount \/ byBytes)
           /\ sent => /\ SubSeq(posts', 1, Len(posts)) = posts
                       /\ DataPositions(posts'[Len(posts')].body) =
                            DataPositions(CallChunks)
           /\ (sent /\ maxInstances = 0) => (byForce \/ byBytes)
           /\ (sent /\ stowMaxSize = 0) => (byForce \/ byCount)
           /\ ~sent => /\ posts' = posts
                       /\ countInstances' = CallCount
                       /\ chunks' = CallChunks
    ]_vars

\* C1 witness: with no limit of instances, a first call has left one
\* instance in the buffer and the second, not forced, has sent the two
\* because the bytes reached the limit.
C1_Witness ==
  /\ pc = "validate"
  /\ ~force
  /\ maxInstances = 0
  /\ stowMaxSize = 1
  /\ Len(posts) = 1
  /\ posts[1].count = 2

(* ------------------------------------------------------------------ *)
(* C2                                                                  *)
(* ------------------------------------------------------------------ *)

\* C2: when the request is answered "{}" (every POST was accepted and the
\* last, forced call of SendStowChunks made), the counts of instances of the
\* POSTs sum up to the number of instances added, every POST carries as
\* many files as its count, and the files carried by the POSTs, in order,
\* are the files added, each exactly once.
C2_EveryInstanceSentOnce ==
  answer = "{}\n" =>
    /\ SumOfCounts(posts) = Len(AddedPositions)
    /\ \A k \in 1..Len(posts) :
         Len(DataPositions(posts[k].body)) = posts[k].count
    /\ SentPositions(posts) = AddedPositions
    /\ \A j, k \in 1..Len(AddedPositions) :
         j < k => AddedPositions[j] < AddedPositions[k]

\* C2 witness: two instances added and sent by two POSTs, all accepted
C2_Witness ==
  /\ answer = "{}\n"
  /\ Len(AddedPositions) = 2
  /\ Len(posts) = 2

(* ------------------------------------------------------------------ *)
(* C3                                                                  *)
(* ------------------------------------------------------------------ *)

\* No body sent had reached the limit of bytes before its terminator
ByteThresholdNeverReached ==
  \/ stowMaxSize = 0
  \/ \A k \in 1..Len(posts) :
       BytesOf(SubSeq(posts[k].body, 1, Len(posts[k].body) - 1))
         < stowMaxSize * 1048576

\* C3: with a limit of instances above 0 and the limit of bytes never
\* reached, a request answered "{}" after adding n instances has sent
\* exactly ceil(n / maxInstances) POSTs: none for n = 0, and no empty one
\* when n is a multiple of the limit.
C3_NumberOfFlushes ==
  (answer = "{}\n" /\ maxInstances > 0 /\ ByteThresholdNeverReached) =>
    LET n == Len(AddedPositions)
    IN  /\ Len(posts) = (n + maxInstances - 1) \div maxInstances
        /\ \A k \in 1..Len(posts) : posts[k].count > 0

\* C3 witness: two instances under a limit of two went out in one POST
C3_Witness ==
  /\ answer = "{}\n"
  /\ maxInstances = 2
  /\ stowMaxSize = 0
  /\ Len(AddedPositions) = 2
  /\ Len(posts) = 1

(* ------------------------------------------------------------------ *)
(* C4                                                                  *)
(* ------------------------------------------------------------------ *)

\* The number of DICOM files the last POST carried
Sent == Len(DataPositions(posts[Len(posts)].body))

\* The member `key` of the answer a is a sequence in the DICOM JSON model
IsSequence(a, key) ==
  /\ a.json.members[key].type = "object"
  /\ "Value" \in DOMAIN a.json.members[key].members
  /\ a.json.members[key].members["Value"].type = "array"

SizeOf(a, key) == Len(a.json.members[key].members["Value"].items)

\* The answer a is a JSON object
IsObject(a) == a.parses /\ a.json.type = "object"

\* The answer a is a JSON object whose Referenced SOP Sequence has m items
ReferencedMatches(a, m) ==
  /\ IsObject(a)
  /\ "00081199" \in DOMAIN a.json.members
  /\ IsSequence(a, "00081199")
  /\ SizeOf(a, "00081199") = m

\* C4: when the answer to a POST of M instances is not a JSON object whose
\* member 00081199 is a sequence of exactly M items, SendStowChunks throws
\* NetworkProtocol, the count of instances stays M, and the request is not
\* answered "{}".
C4_ReferencedCountMustMatch ==
  [][(pc = "validate" /\ ~ReferencedMatches(answerBody, Sent)) =>
       /\ pc' = "error"
       /\ error' = "NetworkProtocol"
       /\ countInstances' = Sent
       /\ countInstances' > 0
       /\ answer' = "none"
    ]_vars

\* C4 witness: the remote referenced another number of instances than the
\* two it was sent, and the request failed
C4_Witness ==
  /\ pc = "error"
  /\ error = "NetworkProtocol"
  /\ logged = "The STOW-RS server was only able to receive"
  /\ countInstances = 2
  /\ answer = "none"

(* ------------------------------------------------------------------ *)
(* C5                                                                  *)
(* ------------------------------------------------------------------ *)

\* The answer a carries, under one of the spellings keys, a sequence with
\* at least one item
HasItems(a, keys) ==
  /\ IsObject(a)
  /\ \E key \in keys :
       /\ key \in DOMAIN a.json.members
       /\ IsSequence(a, key)
       /\ SizeOf(a, key) >= 1

\* The answer a carries no sequence under the spellings keys, or an empty one
AbsentOrEmpty(a, keys) ==
  \A key \in keys :
    key \in DOMAIN a.json.members => (IsSequence(a, key) /\ SizeOf(a, key) = 0)

FailedSOPSequence == {"00081198"}

OtherFailuresSequence == {"0008119A", "0008119a"}

\* C5: an answer that carries a Failed SOP Sequence or an Other Failures
\* Sequence of at least one item makes SendStowChunks throw NetworkProtocol;
\* an answer whose Referenced SOP Sequence matches and in which each of the
\* two sequences is absent or empty is accepted.
C5_FailureSequences ==
  [][pc = "validate" =>
       /\ (\/ HasItems(answerBody, FailedSOPSequence)
           \/ HasItems(answerBody, OtherFailuresSequence))
            => (pc' = "error" /\ error' = "NetworkProtocol" /\ answer' = "none")
       /\ (/\ ReferencedMatches(answerBody, Sent)
           /\ AbsentOrEmpty(answerBody, FailedSOPSequence)
           /\ AbsentOrEmpty(answerBody, OtherFailuresSequence))
            => (pc' # "error" /\ error' = "none" /\ countInstances' = 0)
    ]_vars

\* C5 witness: every instance sent was referenced, and the request failed
\* on the items of the Other Failures Sequence
C5_Witness ==
  /\ pc = "error"
  /\ error = "NetworkProtocol"
  /\ logged = "items in its Other Failures Sequence"

(* ------------------------------------------------------------------ *)
(* C6                                                                  *)
(* ------------------------------------------------------------------ *)

\* The answer a to a POST of m instances references the m instances and
\* carries no failure
Accepted(a, m) ==
  /\ ReferencedMatches(a, m)
  /\ AbsentOrEmpty(a, FailedSOPSequence)
  /\ AbsentOrEmpty(a, OtherFailuresSequence)

\* C6: the request is answered "{}" only once every instance has been
\* gone through, the last call of SendStowChunks has been made with force,
\* no answer of the remote is left to validate, and every file added has
\* been sent, the buffer and the count being empty; that last call sends
\* whatever the buffer holds, whatever the limits; and when the remote
\* accepts the body of the last call the answer is "{}".
C6_AnswerAfterLastFlush ==
  /\ [](answer = "{}\n" =>
          /\ pc = "done"
          /\ error = "none"
          /\ force
          /\ it > Len(instances)
          /\ Len(filesRead) = Len(instances)
          /\ answerBody = NoAnswer
          /\ SentPositions(posts) = AddedPositions
          /\ chunks = << >>
          /\ countInstances = 0)
  /\ [][/\ (ForcedCall /\ countInstances > 0) =>
             /\ Len(posts') = Len(posts) + 1
             /\ DataPositions(posts'[Len(posts')].body) = DataPositions(chunks)
             /\ answer' = "none"
        /\ (ForcedCall /\ countInstances = 0) =>
             (posts' = posts /\ answer' = "{}\n")
        /\ (pc = "validate" /\ force /\ Accepted(answerBody, Sent)) =>
             (pc' = "done" /\ answer' = "{}\n" /\ chunks' = << >>
              /\ countInstances' = 0)
        /\ (pc = "validate" /\ ~force) => answer' = "none"
       ]_vars

\* C6 witness: a single instance, below the limit of two instances and the
\* limit of 1 MiB, went out with the last call and the request answered "{}"
C6_Witness ==
  /\ answer = "{}\n"
  /\ maxInstances = 2
  /\ stowMaxSize = 1
  /\ Len(posts) = 1
  /\ posts[1].count = 1
  /\ Len(instances) = 1

(* ------------------------------------------------------------------ *)
(* C7                                                                  *)
(* ------------------------------------------------------------------ *)

\* C7: a POST that fails, be it that CallServer throws or that the answer
\* is not accepted, ends the request in error without an answer; from then
\* on no file is read, no POST sent and nothing answered; and a step never
\* takes back or alters a POST already sent.
C7_FlushFailureAborts ==
  /\ [](error # "none" => (pc = "error" /\ answer = "none"))
  /\ [][/\ (pc = "validate" /\ ~Accepted(answerBody, Sent)) =>
             /\ pc' = "error"
             /\ error' = "NetworkProtocol"
             /\ answer' = "none"
             /\ posts' = posts
             /\ filesRead' = filesRead
        /\ (Len(posts') > Len(posts) /\ pc' # "validate") =>
             (pc' = "error" /\ error' = "HttpError" /\ answer' = "none")
        /\ pc = "error" => UNCHANGED <<posts, filesRead, answer, pc, error>>
        /\ Len(posts') >= Len(posts)
        /\ SubSeq(posts', 1, Len(posts)) = posts
       ]_vars

\* C7 witness: a first POST was accepted, the second failed, and the
\* request ended in error with both POSTs sent and the last instance unread
C7_Witness ==
  /\ pc = "error"
  /\ error \in {"HttpError", "NetworkProtocol"}
  /\ Len(posts) = 2
  /\ answer = "none"

(* ------------------------------------------------------------------ *)
(* C8                                                                  *)
(* ------------------------------------------------------------------ *)

\* C8: when the store fails to read the file of an instance, that read is
\* the last of the request, which ends in error without answering "{}".
C8_StoreErrorAborts ==
  \A k \in 1..Len(filesRead) :
    filesRead[k].got = "throws" =>
      /\ k = Len(filesRead)
      /\ pc = "error"
      /\ error = "StoreError"
      /\ answer = "none"

\* C8 witness: after a first instance was sent and accepted, the read of
\* the second failed and the request ended in error
C8_Witness ==
  /\ pc = "error"
  /\ error = "StoreError"
  /\ Len(posts) = 1
  /\ Len(filesRead) = 2
  /\ filesRead[2].got = "throws"

(* ------------------------------------------------------------------ *)
(* C9                                                                  *)
(* ------------------------------------------------------------------ *)

\* The terminator of the body of the POST p, which spells its boundary
TerminatorOf(p) == p.body[Len(p.body)].text

ExpandStep == pc = "parse" /\ i <= Len(Resources) /\ Resources[i].type = "string"

\* The GET of uri is in the log and succeeded, and what it answered
Ok(log, uri) == \E k \in 1..Len(log) : log[k].uri = uri /\ log[k].ok

Json(log, uri) == log[CHOOSE k \in 1..Len(log) : log[k].uri = uri].json

\* The store found id at a level, and found and listed it
Confirmed(log, level, id) == Ok(log, level \o id)

Listed(log, level, id) ==
  Ok(log, level \o id) /\ Ok(log, level \o id \o "/instances")

\* A record of the store that names its instance
NamesInstance(record) ==
  /\ record.type = "object"
  /\ "ID" \in DOMAIN record.members
  /\ record.members["ID"].type = "string"

\* A listing made of such records, and the instances it names in order
IsListing(json) ==
  json.type = "array" /\ \A k \in 1..Len(json.items) : NamesInstance(json.items[k])

IdsOf(json) == [k \in 1..Len(json.items) |-> json.items[k].members["ID"].value]

\* C10 as stated (its first half): expanding an id throws UnknownResource
\* exactly when the store finds the id at none of the four levels
C10_UnknownIffNoLevelConfirmed ==
  [][ExpandStep =>
       LET id == Resources[i].value
       IN  (pc' = "error" /\ error' = "UnknownResource") <=>
             \A level \in {"/instances/", "/series/", "/studies/", "/patients/"} :
               ~Confirmed(storeLog', level, id)
    ]_vars

\* C10, amended: expanding an id throws UnknownResource exactly when the id
\* is empty, or the store does not find it as an instance and, at each of
\* the levels series, study and patient, either does not find it or fails
\* to list its instances.  Otherwise an id found as an instance adds that
\* instance, and another id adds the instances of the first of series,
\* study and patient that is found and listed, in the order of the listing,
\* after the instances of the earlier resources; a record that does not
\* name its instance throws InternalError instead.
C10_ExpandResource ==
  [][ExpandStep =>
       LET id == Resources[i].value
           log == storeLog'
           found == {log[k].uri : k \in {j \in 1..Len(log) : log[j].ok}}
           ListedAt(level) ==
             (level \o id) \in found /\ (level \o id \o "/instances") \in found
           asInstance == ("/instances/" \o id) \in found
           first == IF ListedAt("/series/") THEN "/series/"
                    ELSE IF ListedAt("/studies/") THEN "/studies/"
                    ELSE IF ListedAt("/patients/") THEN "/patients/"
                    ELSE "none"
           thrown == IF pc' = "error" THEN error' ELSE "none"
       IN  IF id = "" \/ (~asInstance /\ first = "none")
           THEN thrown = "UnknownResource" /\ instances' = instances
           ELSE /\ thrown # "UnknownResource"
                /\ IF asInstance
                   THEN LET record == Json(log, "/instances/" \o id)
                        IN  IF NamesInstance(record)
                            THEN /\ thrown = "none"
                                 /\ instances' =
                                      Append(instances, record.members["ID"].value)
                            ELSE thrown = "InternalError"
                   ELSE LET listing == Json(log, first \o id \o "/instances")
                        IN  IF IsListing(listing)
                            THEN /\ thrown = "none"
                                 /\ instances' = instances \o IdsOf(listing)
                            ELSE thrown = "InternalError"
    ]_vars

\* C10 witness: the store found the id as a series but failed to list it,
\* then found and listed it as a study, and the instances of the study were
\* added, in the order listed, after those of the earlier resources
C10_Witness ==
  /\ pc = "parse"
  /\ Confirmed(storeLog, "/series/", "a")
  /\ ~Listed(storeLog, "/series/", "a")
  /\ Listed(storeLog, "/studies/", "a")
  /\ Len(instances) = 2
  /\ instances = <<"i2", "i1">>

(* ------------------------------------------------------------------ *)
(* C11                                                                 *)
(* ------------------------------------------------------------------ *)

\* The GETs about the resource id, in the order named by a list of levels:
\* for each level the lookup, then the listing of its instances (an
\* instance has no listing)
QueriesInOrder(levels, id) ==
  LET RECURSIVE Of(_)
      Of(ls) ==
        IF ls = << >> THEN << >>
        ELSE (IF Head(ls) = "/instances/"
              THEN <<Head(ls) \o id>>
              ELSE <<Head(ls) \o id, Head(ls) \o id \o "/instances">>)
             \o Of(Tail(ls))
  IN  Of(levels)

\* The place of uri in a list of URIs (0 when it is not there)
PlaceOf(uri, uris) ==
  IF \E k \in 1..Len(uris) : uris[k] = uri
  THEN CHOOSE k \in 1..Len(uris) : uris[k] = uri
  ELSE 0

\* The GETs of log were issued in the order of uris, starting with the
\* first of uris
FollowsOrder(log, uris) ==
  /\ log # << >> => log[1].uri = uris[1]
  /\ \A k \in 1..Len(log) : PlaceOf(log[k].uri, uris) > 0
  /\ \A j, k \in 1..Len(log) :
       j < k => PlaceOf(log[j].uri, uris) < PlaceOf(log[k].uri, uris)

\* C11 as stated: the levels are tried in the order patient, study, series,
\* instance
C11_PatientFirst ==
  [][(ExpandStep /\ Resources[i].value # "") =>
       FollowsOrder(storeLog',
                    QueriesInOrder(<<"/patients/", "/studies/", "/series/",
                                     "/instances/">>, Resources[i].value))
    ]_vars

\* C11, amended: the levels are tried in the order instance, series, study,
\* patient, starting with the instance.  A lookup that succeeds is followed
\* by the listing of the level (none for an instance); a level whose lookup
\* and listing succeed is accepted and nothing is asked after it; a level
\* whose lookup or listing fails is followed by the lookup of the next
\* level, if any.
C11_InstanceFirst ==
  [][(ExpandStep /\ Resources[i].value # "") =>
       LET id == Resources[i].value
           log == storeLog'
           uris == QueriesInOrder(<<"/instances/", "/series/", "/studies/",
                                    "/patients/">>, id)
           IsLookup(uri) == PlaceOf(uri, uris) \in {1, 2, 4, 6}
           NextLookup(uri) ==
             IF PlaceOf(uri, uris) = 1 THEN uris[2]
             ELSE IF PlaceOf(uri, uris) \in {2, 3} THEN uris[4]
             ELSE IF PlaceOf(uri, uris) \in {4, 5} THEN uris[6]
             ELSE "none"
           Accepting(call) ==
             call.ok /\ (PlaceOf(call.uri, uris) = 1 \/ ~IsLookup(call.uri))
       IN  /\ FollowsOrder(log, uris)
           /\ Len(log) >= 1
           /\ \A k \in 1..Len(log) :
                IF Accepting(log[k]) THEN k = Len(log)
                ELSE IF log[k].ok
                THEN /\ k < Len(log)
                     /\ log[k + 1].uri = log[k].uri \o "/instances"
                ELSE IF NextLookup(log[k].uri) = "none" THEN k = Len(log)
                ELSE /\ k < Len(log)
                     /\ log[k + 1].uri = NextLookup(log[k].uri)
    ]_vars

\* C11 witness: the id was not found as an instance nor as a series, was
\* found and listed as a study, and the patient was not asked for
C11_Witness ==
  /\ pc = "parse"
  /\ Len(storeLog) = 4
  /\ storeLog[1].uri = "/instances/a" /\ ~storeLog[1].ok
  /\ storeLog[2].uri = "/series/a" /\ ~storeLog[2].ok
  /\ storeLog[3].uri = "/studies/a" /\ storeLog[3].ok
  /\ storeLog[4].uri = "/studies/a/instances" /\ storeLog[4].ok
  /\ instances # << >>

(* ------------------------------------------------------------------ *)
(* C12                                                                 *)
(* ------------------------------------------------------------------ *)

\* A step expands an id into the listing of a level, of which some entry
\* does not name its instance
MalformedEntryStep ==
  /\ ExpandStep
  /\ Resources[i].value # ""
  /\ storeLog' # << >>
  /\ storeLog'[Len(storeLog')].ok
  /\ LET json == storeLog'[Len(storeLog')].json
     IN  IF Len(storeLog') = 1 THEN ~NamesInstance(json)
         ELSE json.type = "array" /\ ~IsListing(json)

\* C12 as stated: an empty id, and an entry of the store that does not name
\* its instance, fail with the error of a malformed request (BadFileFormat,
\* which the code throws for a request that is no JSON object with an array
\* "Resources" of strings)
C12_MalformedInput ==
  [][/\ (ExpandStep /\ Resources[i].value = "") =>
          (pc' = "error" /\ error' = "BadFileFormat")
     /\ MalformedEntryStep => (pc' = "error" /\ error' = "BadFileFormat")
    ]_vars

\* C12, amended: an empty id fails with UnknownResource, without a GET to
\* the store; an entry of the store that does not name its instance fails
\* with InternalError; BadFileFormat is thrown for an entry of "Resources"
\* that is no string, and for nothing else in the expansion.
C12_ErrorKinds ==
  [][/\ (ExpandStep /\ Resources[i].value = "") =>
          (pc' = "error" /\ error' = "UnknownResource" /\ storeLog' = << >>)
     /\ MalformedEntryStep => (pc' = "error" /\ error' = "InternalError")
     /\ (pc = "parse" /\ i <= Len(Resources)) =>
          ((pc' = "error" /\ error' = "BadFileFormat") <=>
             Resources[i].type # "string")
    ]_vars

\* C12 witness: the second entry of the listing of a series does not name
\* its instance, and the request failed with InternalError
C12_Witness ==
  /\ pc = "error"
  /\ error = "InternalError"
  /\ Len(storeLog) = 3
  /\ storeLog[3].json.type = "array"
  /\ Len(storeLog[3].json.items) = 2
  /\ NamesInstance(storeLog[3].json.items[1])
  /\ ~NamesInstance(storeLog[3].json.items[2])

(* ================================================================== *)
(* The STOW-RS server: StowCallback (Plugin/StowRs.cpp)                *)
(* ================================================================== *)

\* Most parts in the body of one request to the server
MaxParts == 2

(* ------------------------------------------------------------------ *)
(* Strings, character by character                                     *)
(* ------------------------------------------------------------------ *)

UpperLetters == "ABCDEFGHIJKLMNOPQRSTUVWXYZ"

LowerLetters == "abcdefghijklmnopqrstuvwxyz"

\* Orthanc::Toolbox::ToLowerCase on any string
RECURSIVE LowerCase(_)
LowerCase(s) ==
  IF s = "" THEN ""
  ELSE LET c == Head(s)
           Is(k) == SubSeq(UpperLetters, k, k) = c
           lower == IF \E k \in 1..26 : Is(k)
                    THEN LET k == CHOOSE k \in 1..26 : Is(k)
                         IN  SubSeq(LowerLetters, k, k)
                    ELSE c
       IN  lower \o LowerCase(Tail(s))

\* Orthanc::Toolbox::StripSpaces
RECURSIVE StripSpaces(_)
StripSpaces(s) ==
  IF s = "" THEN ""
  ELSE IF Head(s) = " " THEN StripSpaces(Tail(s))
  ELSE IF SubSeq(s, Len(s), Len(s)) = " "
  THEN StripSpaces(SubSeq(s, 1, Len(s) - 1))
  ELSE s

\* Orthanc::Toolbox::TokenizeString: the pieces of s between the separators
TokenizeString(s, separator) ==
  LET RECURSIVE Pieces(_, _)
      Pieces(rest, current) ==
        IF rest = "" THEN <<current>>
        ELSE IF Head(rest) = separator
        THEN <<current>> \o Pieces(Tail(rest), "")
        ELSE Pieces(Tail(rest), current \o Head(rest))
  IN  Pieces(s, "")

\* A value without the double quotes that surround it, if any
Unquote(value) ==
  IF /\ Len(value) >= 2
     /\ Head(value) = "\""
     /\ SubSeq(value, Len(value), Len(value)) = "\""
  THEN SubSeq(value, 2, Len(value) - 1)
  ELSE value

(* ------------------------------------------------------------------ *)
(* The headers of the request                                          *)
(* ------------------------------------------------------------------ *)

\* OrthancPlugins::ParseContentType: the media type of a Content-Type
\* header, in lower case, and its parameters by name in lower case.  A
\* parameter without a value is not recorded; a value loses the quotes
\* around it, and the value of "type", which names a media type, is put
\* in lower case.
ParseContentType(header) ==
  LET tokens == TokenizeString(header, ";")
      Pair(token) == TokenizeString(token, "=")
      Key(token) == LowerCase(StripSpaces(Pair(token)[1]))
      Raw(token) == Unquote(StripSpaces(Pair(token)[2]))
      Value(token) ==
        IF Key(token) = "type" THEN LowerCase(Raw(token)) ELSE Raw(token)
      given == {k \in 2..Len(tokens) :
                  /\ Len(Pair(tokens[k])) = 2
                  /\ Key(tokens[k]) # ""
                  /\ Raw(tokens[k]) # ""}
      keys == {Key(tokens[k]) : k \in given}
      Last(key) == CHOOSE k \in given :
                     /\ Key(tokens[k]) = key
                     /\ \A j \in given : Key(tokens[j]) = key => j <= k
  IN  [application |-> LowerCase(StripSpaces(tokens[1])),
       attributes |-> [key \in keys |-> Value(tokens[Last(key)])]]

\* The "Accept" headers of the requests
AcceptHeaders ==
  {NoHeader} \cup
  {Header(v) : v \in {"application/dicom+json", "*/*", "application/dicom+xml",
                      "Application/XML", "TEXT/xml", "text/html",
                      "application/dicom+xml, application/json"}}

\* The "Content-Type" headers of the requests
ContentTypeHeaders ==
  {NoHeader} \cup
  {Header(v) : v \in
     {"multipart/related; type=application/dicom; boundary=abc123",
      "multipart/related; type=\"application/dicom\"; boundary=abc123",
      "Multipart/Related; Type=Application/DICOM; Boundary=Abc123",
      "multipart/related; type=application/json; boundary=abc123",
      "multipart/related; type=\"\"application/dicom\"\"; boundary=abc123",
      "multipart/related; boundary=abc123",
      "multipart/related; type=application/dicom",
      "multipart/related; type=application/dicom; boundary=",
      "multipart/form-data; type=application/dicom; boundary=abc123",
      "application/dicom"}}

\* Variant of IsXmlExpected that compares the header as it is spelled
IsXmlExpected_CaseSensitive(acceptHeader) ==
  IF ~acceptHeader.present THEN [xml |-> FALSE, log |-> "none"]
  ELSE IF acceptHeader.value \in {"application/dicom+json", "application/json",
                                   "*/*"}
  THEN [xml |-> FALSE, log |-> "none"]
  ELSE IF acceptHeader.value \in {"application/dicom+xml", "application/xml",
                                   "text/xml"}
  THEN [xml |-> TRUE, log |-> "none"]
  ELSE [xml |-> FALSE, log |-> "Unsupported return MIME type"]

\* IsXmlExpected: whether the answer is to be DICOM+XML, and the error logged
IsXmlExpected(acceptHeader) ==
  IF ~acceptHeader.present THEN [xml |-> FALSE, log |-> "none"]
  ELSE LET accepted == LowerCase(acceptHeader.value)
       IN  IF accepted \in {"application/dicom+json", "application/json", "*/*"}
           THEN [xml |-> FALSE, log |-> "none"]
           ELSE IF accepted \in {"application/dicom+xml", "application/xml",
                                 "text/xml"}
           THEN [xml |-> TRUE, log |-> "none"]
           ELSE [xml |-> FALSE, log |-> "Unsupported return MIME type"]

\* Variant of CheckContentType that does not ask for a boundary
CheckContentType_NoBoundary(header) ==
  IF ~header.present THEN [status |-> 400, boundary |-> ""]
  ELSE LET parsed == ParseContentType(header.value)
           application == parsed.application
           attributes == parsed.attributes
       IN  IF \/ application # "multipart/related"
              \/ "type" \notin DOMAIN attributes
           THEN [status |-> 400, boundary |-> ""]
           ELSE IF attributes["type"] # "application/dicom"
           THEN [status |-> 415, boundary |-> ""]
           ELSE [status |-> 0, boundary |-> ""]

\* The checks StowCallback makes on the Content-Type header: the HTTP status
\* it answers at once (0 when it goes on), and the boundary it goes on with
CheckContentType(header) ==
  IF ~header.present THEN [status |-> 400, boundary |-> ""]
  ELSE LET parsed == ParseContentType(header.value)
           application == parsed.application
           attributes == parsed.attributes
       IN  IF \/ application # "multipart/related"
              \/ "type" \notin DOMAIN attributes
              \/ "boundary" \notin DOMAIN attributes
           THEN [status |-> 400, boundary |-> ""]
           ELSE IF attributes["type"] # "application/dicom"
           THEN [status |-> 415, boundary |-> attributes["boundary"]]
           ELSE [status |-> 0, boundary |-> attributes["boundary"]]

(* ------------------------------------------------------------------ *)
(* The parts of the body, the store and the status records             *)
(* ------------------------------------------------------------------ *)

\* The Content-Type headers of the parts ("" when a part has none), and the
\* studies of the DICOM files
PartContentTypes == {"", "application/dicom", "text/plain"}

StudyUids == {"1.2.1", "1.2.2"}

\* The parts ParseMultipartBody can decode from a body: the k-th part of a
\* body holds a DICOM file of some study, whose SOP instance is the k-th.
MultipartBodies ==
  UNION {[1..n -> [contentType : PartContentTypes,
                   studyInstanceUid : StudyUids,
                   seriesInstanceUid : {"1.3.1"},
                   sopClassUid : {"1.2.840.10008.5.1.4.1.1.7"}]] :
           n \in 0..MaxParts}

SopInstanceUid(k) == "1.4." \o ToString(k)

\* request->groups: the study of the URI /studies/{study}, if any
RequestGroups == {<< >>, <<"1.2.1">>}

\* What MemoryBuffer::RestApiPost("/instances") can do: return true (the
\* store took the file), return false, or throw
StoreOutcomes == {"true", "false", "throws"}

\* OrthancPlugins::Configuration::GetBaseUrl
wadoBase == "http://localhost:8042/dicom-web/"

\* Variant of StatusItem that leaves the failure reason out
StatusItem_NoFailureReason(part, k, warningReason, failureReason, retrieveUrl) ==
  [part |-> k,
   referencedSopClassUid |-> part.sopClassUid,
   referencedSopInstanceUid |-> SopInstanceUid(k),
   warningReason |-> warningReason,
   failureReason |-> "none",
   retrieveUrl |-> retrieveUrl]

\* The item of a status sequence for the part k: the tags SetTag puts in
\* `status`, "none" standing for a tag that is not set
StatusItem(part, k, warningReason, failureReason, retrieveUrl) ==
  [part |-> k,
   referencedSopClassUid |-> part.sopClassUid,
   referencedSopInstanceUid |-> SopInstanceUid(k),
   warningReason |-> warningReason,
   failureReason |-> failureReason,
   retrieveUrl |-> retrieveUrl]

\* Variant of IsDiscarded that compares with the expected study even when
\* the request names none
IsDiscarded_Unrestricted(expected, studyInstanceUid) ==
  studyInstanceUid # expected

\* Whether StowCallback discards a part of study studyInstanceUid
IsDiscarded(expected, studyInstanceUid) ==
  expected # "" /\ studyInstanceUid # expected

\* Variant of IsRefusedPart that refuses a part without a Content-Type
IsRefusedPart_EmptyToo(partContentType) ==
  partContentType # "application/dicom"

\* Whether StowCallback refuses the Content-Type of a part
IsRefusedPart(partContentType) ==
  partContentType # "" /\ partContentType # "application/dicom"

\* The URL of the study of a part, and the URL of its instance
StudyUrl(part) == wadoBase \o "studies/" \o part.studyInstanceUid

InstanceUrl(part, k) ==
  wadoBase \o "studies/" \o part.studyInstanceUid \o
  "/series/" \o part.seriesInstanceUid \o
  "/instances/" \o SopInstanceUid(k)

(* ------------------------------------------------------------------ *)
(* StowCallback                                                        *)
(* ------------------------------------------------------------------ *)

\* The STOW-RS client is not running
ClientIdle ==
  /\ method = "POST"
  /\ body = [parses |-> FALSE, json |-> JNull]
  /\ maxInstances = 0
  /\ stowMaxSize = 0
  /\ pc = "idle"
  /\ boundary = ""
  /\ mime = ""
  /\ i = 0
  /\ instances = << >>
  /\ storeLog = << >>
  /\ it = 0
  /\ chunks = << >>
  /\ countInstances = 0
  /\ force = FALSE
  /\ answerBody = NoAnswer
  /\ posts = << >>
  /\ filesRead = << >>
  /\ uuids = 0
  /\ logged = "none"
  /\ error = "none"
  /\ answer = "none"

StowInit ==
  /\ ClientIdle
  /\ WadoIdle
  /\ CodecIdle
  /\ ConcurrentIdle
  /\ stowPc = "start"
  /\ accept = NoHeader
  /\ contentType = NoHeader
  /\ expectedStudy = ""
  /\ isXml = FALSE
  /\ items = << >>
  /\ stowI = 0
  /\ isFirst = TRUE
  /\ result = "none"
  /\ success = << >>
  /\ failed = << >>
  /\ written = << >>
  /\ stowAnswer = NoStowAnswer

\* StowCallback up to IsXmlExpected: the method is checked, the expected
\* study taken from the URI and the format of the answer chosen
StowBegin ==
  /\ stowPc = "start"
  /\ \E requestMethod \in {"POST", "GET"}, groups \in RequestGroups,
        header \in AcceptHeaders :
       IF requestMethod # "POST"
       THEN /\ stowPc' = "done"
            /\ stowAnswer' = [status |-> 405]
            /\ UNCHANGED <<accept, expectedStudy, isXml>>
       ELSE /\ stowPc' = "content-type"
            /\ expectedStudy' = IF Len(groups) = 1 THEN groups[1] ELSE ""
            /\ accept' = header
            /\ isXml' = IsXmlExpected(header).xml
            /\ stowAnswer' = stowAnswer
  /\ UNCHANGED <<client, wado, codec, concurrent, contentType, items, stowI, isFirst, result, success,
                 failed, written>>

\* StowCallback from the lookup of the Content-Type header to the decoding
\* of the body
StowParse ==
  /\ stowPc = "content-type"
  /\ \E header \in ContentTypeHeaders :
       /\ contentType' = header
       /\ LET check == CheckContentType(header)
          IN  IF check.status # 0
              THEN /\ stowPc' = "done"
                   /\ stowAnswer' = [status |-> check.status]
                   /\ UNCHANGED <<items, stowI>>
              ELSE /\ stowPc' = "items"
                   /\ stowAnswer' = stowAnswer
                   /\ items' \in MultipartBodies
                   /\ stowI' = 1
  /\ UNCHANGED <<client, wado, codec, concurrent, accept, expectedStudy, isXml, isFirst, result,
                 success, failed, written>>

\* Variant of StowItem that keeps no record of a part it discards
StowItem_DiscardUnrecorded ==
  /\ stowPc = "items"
  /\ stowI <= Len(items)
  /\ LET part == items[stowI]
         Status(warningReason, failureReason, retrieveUrl) ==
           StatusItem(part, stowI, warningReason, failureReason, retrieveUrl)
     IN  IF IsRefusedPart(part.contentType)
         THEN /\ stowPc' = "done"
              /\ stowAnswer' = [status |-> 415]
              /\ UNCHANGED <<stowI, isFirst, result, success, failed, written>>
         ELSE IF IsDiscarded(expectedStudy, part.studyInstanceUid)
         THEN /\ success' = success
              /\ stowI' = stowI + 1
              /\ UNCHANGED <<stowPc, stowAnswer, isFirst, result, failed, written>>
         ELSE /\ isFirst' = FALSE
              /\ result' = IF isFirst THEN StudyUrl(part) ELSE result
              /\ \E ok \in StoreOutcomes :
                   /\ written' = Append(written, [part |-> stowI, ok |-> ok])
                   /\ CASE ok = "true" ->
                             /\ success' = Append(success,
                                                  Status("none", "none",
                                                         InstanceUrl(part, stowI)))
                             /\ stowI' = stowI + 1
                             /\ UNCHANGED <<stowPc, stowAnswer, failed>>
                        [] ok = "false" ->
                             /\ failed' = Append(failed,
                                                 Status("none", "0110", "none"))
                             /\ stowI' = stowI + 1
                             /\ UNCHANGED <<stowPc, stowAnswer, success>>
                        [] OTHER ->
                             /\ stowPc' = "error"
                             /\ UNCHANGED <<stowAnswer, stowI, success, failed>>
  /\ UNCHANGED <<client, wado, codec, concurrent, accept, contentType, expectedStudy, isXml, items>>

\* One iteration of the loop of StowCallback over the parts
StowItem ==
  /\ stowPc = "items"
  /\ stowI <= Len(items)
  /\ LET part == items[stowI]
         Status(warningReason, failureReason, retrieveUrl) ==
           StatusItem(part, stowI, warningReason, failureReason, retrieveUrl)
     IN  IF IsRefusedPart(part.contentType)
         THEN /\ stowPc' = "done"
              /\ stowAnswer' = [status |-> 415]
              /\ UNCHANGED <<stowI, isFirst, result, success, failed, written>>
         ELSE IF IsDiscarded(expectedStudy, part.studyInstanceUid)
         THEN /\ success' = Append(success, Status("B006", "none", "none"))
              /\ stowI' = stowI + 1
              /\ UNCHANGED <<stowPc, stowAnswer, isFirst, result, failed, written>>
         ELSE /\ isFirst' = FALSE
              /\ result' = IF isFirst THEN StudyUrl(part) ELSE result
              /\ \E ok \in StoreOutcomes :
                   /\ written' = Append(written, [part |-> stowI, ok |-> ok])
                   /\ CASE ok = "true" ->
                             /\ success' = Append(success,
                                                  Status("none", "none",
                                                         InstanceUrl(part, stowI)))
                             /\ stowI' = stowI + 1
                             /\ UNCHANGED <<stowPc, stowAnswer, failed>>
                        [] ok = "false" ->
                             /\ failed' = Append(failed,
                                                 Status("none", "0110", "none"))
                             /\ stowI' = stowI + 1
                             /\ UNCHANGED <<stowPc, stowAnswer, success>>
                        [] OTHER ->
                             /\ stowPc' = "error"
                             /\ UNCHANGED <<stowAnswer, stowI, success, failed>>
  /\ UNCHANGED <<client, wado, codec, concurrent, accept, contentType, expectedStudy, isXml, items>>

\* The end of StowCallback: the two sequences are put in `result`, which is
\* answered in the format chosen
StowAnswer ==
  /\ stowPc = "items"
  /\ stowI > Len(items)
  /\ stowPc' = "done"
  /\ stowAnswer' = [status |-> 200, xml |-> isXml, retrieveUrl |-> result,
                    failedSopSequence |-> failed,
                    referencedSopSequence |-> success]
  /\ UNCHANGED <<client, wado, codec, concurrent, accept, contentType, expectedStudy, isXml, items,
                 stowI, isFirst, result, success, failed, written>>

StowNext ==
  \/ StowBegin
  \/ StowParse
  \/ StowItem
  \/ StowAnswer

StowSpec == StowInit /\ [][StowNext]_vars

(* ------------------------------------------------------------------ *)
(* What the properties of the server observe                           *)
(* ------------------------------------------------------------------ *)

\* The places of sequence seq whose record is about the k-th part
RecordsOf(seq, k) ==
  {r \in 1..Len(seq) : seq[r].referencedSopInstanceUid = "1.4." \o ToString(k)}

\* The records of seq follow the order of the parts
InPartOrder(seq) ==
  \A q, r \in 1..Len(seq) :
    q < r => \E j, k \in 1..Len(items) :
               j < k /\ q \in RecordsOf(seq, j) /\ r \in RecordsOf(seq, k)

\* The parts the loop of StowCallback has gone through
Processed == IF stowPc \in {"items", "done"} THEN 1..(stowI - 1) ELSE {}

\* The parts posted to the store, and those the store took
Posted == {written[w].part : w \in 1..Len(written)}

Stored == {k \in Posted : \E w \in 1..Len(written) : written[w].part = k /\ written[w].ok = "true"}

(* ------------------------------------------------------------------ *)
(* C13                                                                 *)
(* ------------------------------------------------------------------ *)

\* C13: in a run of the server that answers the status sequences, every
\* part of the body has exactly one record, in exactly one of the two
\* sequences, so that the lengths of the two sum up to the number of parts;
\* each sequence follows the order of the parts; and the answer carries
\* the two sequences.
C13_OneRecordPerPart ==
  stowAnswer.status = 200 =>
    /\ Len(success) + Len(failed) = Len(items)
    /\ \A k \in 1..Len(items) :
         Cardinality(RecordsOf(success, k)) + Cardinality(RecordsOf(failed, k)) = 1
    /\ InPartOrder(success)
    /\ InPartOrder(failed)
    /\ stowAnswer.referencedSopSequence = success
    /\ stowAnswer.failedSopSequence = failed

\* C13 witness: of two parts, the first is in the Failed SOP Sequence and
\* the second in the Referenced SOP Sequence
C13_Witness ==
  /\ stowAnswer.status = 200
  /\ Len(items) = 2
  /\ RecordsOf(failed, 1) = {1}
  /\ RecordsOf(success, 2) = {1}

(* ------------------------------------------------------------------ *)
(* C14                                                                 *)
(* ------------------------------------------------------------------ *)

\* C14: in a request restricted to a study, a part of another study that
\* the loop has gone through was not posted to the store and has a record
\* with the warning B006 in the Referenced SOP Sequence, none in the Failed
\* SOP Sequence; in a request without restriction no record has a warning
\* and every part gone through was posted to the store.
C14_OtherStudyDiscarded ==
  /\ \A k \in Processed :
       (expectedStudy # "" /\ items[k].studyInstanceUid # expectedStudy) =>
         /\ k \notin Posted
         /\ RecordsOf(failed, k) = {}
         /\ \E r \in RecordsOf(success, k) :
              /\ success[r].warningReason = "B006"
              /\ success[r].failureReason = "none"
              /\ success[r].retrieveUrl = "none"
  /\ expectedStudy = "" =>
       /\ \A r \in 1..Len(success) : success[r].warningReason = "none"
       /\ \A r \in 1..Len(failed) : failed[r].warningReason = "none"
       /\ \A k \in Processed : k \in Posted

\* C14 witness: a request restricted to study 1.2.1 discarded its first
\* part, of study 1.2.2, and stored the second
C14_Witness ==
  /\ stowAnswer.status = 200
  /\ expectedStudy = "1.2.1"
  /\ Len(items) = 2
  /\ items[1].studyInstanceUid = "1.2.2"
  /\ written = <<[part |-> 2, ok |-> "true"]>>
  /\ Len(success) = 2
  /\ success[1].warningReason = "B006"

(* ------------------------------------------------------------------ *)
(* C15                                                                 *)
(* ------------------------------------------------------------------ *)

\* C15: a part for which the POST to the store returned false has a record
\* in the Failed SOP Sequence, with the failure reason 0110 and no retrieve
\* URL, and none in the Referenced SOP Sequence; the step that records it
\* goes on to the next part without answering; and every record of the
\* Failed SOP Sequence is such a record.
C15_StoreFailureRecorded ==
  /\ [](\A w \in 1..Len(written) :
          written[w].ok = "false" =>
            /\ RecordsOf(success, written[w].part) = {}
            /\ \E r \in RecordsOf(failed, written[w].part) :
                 /\ failed[r].failureReason = "0110"
                 /\ failed[r].retrieveUrl = "none"
                 /\ failed[r].warningReason = "none")
  /\ [](\A r \in 1..Len(failed) :
          \E v \in 1..Len(written) :
            /\ written[v].ok = "false"
            /\ r \in RecordsOf(failed, written[v].part))
  /\ [][(/\ Len(written') = Len(written) + 1
          /\ written'[Len(written')].ok = "false") =>
            /\ stowPc' = "items"
            /\ stowI' = stowI + 1
            /\ stowAnswer' = NoStowAnswer
       ]_vars

\* C15 witness: the store refused the first part and took the second, and
\* the request was answered with one record in each sequence
C15_Witness ==
  /\ stowAnswer.status = 200
  /\ written = <<[part |-> 1, ok |-> "false"], [part |-> 2, ok |-> "true"]>>
  /\ Len(failed) = 1
  /\ failed[1].failureReason = "0110"
  /\ Len(success) = 1

(* ------------------------------------------------------------------ *)
(* C16                                                                 *)
(* ------------------------------------------------------------------ *)

\* C16 as stated: the retrieve URL of the answer is set at most once, and
\* is that of the study of the first part the store took; without such a
\* part the answer has no retrieve URL.
C16_UrlOfFirstStoredPart ==
  /\ [][result # "none" => result' = result]_vars
  /\ [](stowAnswer.status = 200 =>
          IF Stored = {}
          THEN stowAnswer.retrieveUrl = "none"
          ELSE LET first == CHOOSE k \in Stored : \A j \in Stored : k <= j
               IN  stowAnswer.retrieveUrl =
                     "http://localhost:8042/dicom-web/studies/" \o
                     items[first].studyInstanceUid)

(* ------------------------------------------------------------------ *)
(* C17                                                                 *)
(* ------------------------------------------------------------------ *)

\* The Content-Type header of the request has been looked at
HeaderChecked ==
  \/ stowPc \in {"items", "error"}
  \/ stowPc = "done" /\ stowAnswer.status # 405

\* The request went on to the decoding of its body
FramingAccepted == stowI >= 1

\* The request was answered on the sight of its Content-Type header
FramingRejected(statuses) ==
  /\ stowPc = "done"
  /\ stowI = 0
  /\ stowAnswer.status \in statuses

\* The headers whose media type is multipart/related, whose type is
\* application/dicom in any case and within at most one pair of quotes,
\* and that have a boundary
WellFramed ==
  {Header("multipart/related; type=application/dicom; boundary=abc123"),
   Header("multipart/related; type=\"application/dicom\"; boundary=abc123"),
   Header("Multipart/Related; Type=Application/DICOM; Boundary=Abc123")}

\* C17: once the server has looked at the Content-Type header of a POST,
\* it has gone on to decode the body if and only if the media type is
\* multipart/related, the type parameter is application/dicom (in any case,
\* one pair of quotes taken off) and there is a non-empty boundary; for
\* every other header, a missing one included, it has answered a refusal
\* (400 or 415) and the request is over.
C17_ValidateInboundFraming ==
  HeaderChecked =>
    /\ FramingAccepted <=> contentType \in WellFramed
    /\ ~FramingAccepted => FramingRejected({400, 415})
    /\ FramingAccepted => ~FramingRejected({400, 415})

\* C17 witness: the header with the quoted type and boundary=abc123 was
\* accepted and the request answered with the status sequences
C17_Witness ==
  /\ contentType =
       Header("multipart/related; type=\"application/dicom\"; boundary=abc123")
  /\ FramingAccepted
  /\ stowAnswer.status = 200

\* C17 witness of the refusal: type=application/json was rejected
C17_WitnessRejected ==
  /\ contentType =
       Header("multipart/related; type=application/json; boundary=abc123")
  /\ FramingRejected({415})

(* ------------------------------------------------------------------ *)
(* C18                                                                 *)
(* ------------------------------------------------------------------ *)

\* The headers that are missing, not multipart/related, or without a type
\* or a boundary
BadlyFramed ==
  {NoHeader,
   Header("multipart/related; boundary=abc123"),
   Header("multipart/related; type=application/dicom"),
   Header("multipart/related; type=application/dicom; boundary="),
   Header("multipart/form-data; type=application/dicom; boundary=abc123"),
   Header("application/dicom")}

\* The multipart/related headers with a boundary and another type
OtherType ==
  {Header("multipart/related; type=application/json; boundary=abc123"),
   Header("multipart/related; type=\"\"application/dicom\"\"; boundary=abc123")}

\* C18: once the server has looked at the Content-Type header of a POST,
\* it has answered 400 exactly for a header that is missing, not
\* multipart/related or without type or boundary, and 415 on the sight of
\* the header exactly for another type; in both cases no part was decoded,
\* nothing posted to the store and nothing recorded.  A 415 after the
\* decoding is for a part with a content type that is neither empty nor
\* application/dicom; the parts the loop went through, and all the parts
\* of a request answered 200, have an empty content type or
\* application/dicom, and are posted to the store unless discarded for
\* their study.
C18_StatusOfRefusals ==
  HeaderChecked =>
    /\ FramingRejected({400}) <=> contentType \in BadlyFramed
    /\ stowAnswer.status = 400 => FramingRejected({400})
    /\ FramingRejected({415}) <=> contentType \in OtherType
    /\ FramingRejected({400, 415}) =>
         /\ items = << >>
         /\ written = << >>
         /\ success = << >>
         /\ failed = << >>
    /\ (stowAnswer.status = 415 /\ FramingAccepted) =>
         /\ stowI \in 1..Len(items)
         /\ items[stowI].contentType \notin {"", "application/dicom"}
    /\ \A k \in Processed :
         /\ items[k].contentType \in {"", "application/dicom"}
         /\ (expectedStudy = "" \/ items[k].studyInstanceUid = expectedStudy)
              => k \in Posted
    /\ stowAnswer.status = 200 => Processed = 1..Len(items)

\* C18 witness: a first part without content type was stored, and the
\* second, of type text/plain, answered with 415
C18_Witness ==
  /\ stowAnswer.status = 415
  /\ Len(items) = 2
  /\ stowI = 2
  /\ items[1].contentType = ""
  /\ items[2].contentType = "text/plain"
  /\ written = <<[part |-> 1, ok |-> "true"]>>

(* ------------------------------------------------------------------ *)
(* C19                                                                 *)
(* ------------------------------------------------------------------ *)

\* The Accept headers that are, in any case, one of application/dicom+xml,
\* application/xml and text/xml
XmlAccepted ==
  {Header("application/dicom+xml"), Header("Application/XML"),
   Header("TEXT/xml")}

\* C19: the format chosen for a POST is XML exactly when the Accept header
\* is, in any case, one of application/dicom+xml, application/xml and
\* text/xml, and JSON without header and for every other value; the
\* answer with the status sequences is in the format chosen; and whatever
\* the Accept header, the step that chooses the format answers nothing and
\* goes on to the Content-Type header.
C19_IsXmlExpected ==
  /\ []((stowPc # "start" /\ stowAnswer.status # 405) =>
          /\ isXml <=> accept \in XmlAccepted
          /\ stowAnswer.status = 200 => (stowAnswer.xml <=> accept \in XmlAccepted))
  /\ [][(stowPc = "start" /\ stowAnswer'.status # 405) =>
          /\ stowPc' = "content-type"
          /\ stowAnswer' = NoStowAnswer
          /\ isXml' <=> accept' \in XmlAccepted
       ]_vars

\* C19 witness: a request with "Accept: TEXT/xml" was answered in XML
C19_Witness ==
  /\ accept = Header("TEXT/xml")
  /\ stowAnswer.status = 200
  /\ stowAnswer.xml

\* C19 witness of the fallback: an unrecognized Accept value went on and
\* was answered in JSON
C19_WitnessFallback ==
  /\ accept = Header("text/html")
  /\ stowAnswer.status = 200
  /\ ~stowAnswer.xml

\* The retrieve URL of the answer is never changed once set
UrlSetOnce == [][result # "none" => result' = result]_vars

\* A part discarded for its study never determines the retrieve URL
UrlNotOfDiscarded ==
  (stowAnswer.status = 200 /\ stowAnswer.retrieveUrl # "none") =>
    \E k \in Posted :
      /\ \A j \in Posted : k <= j
      /\ stowAnswer.retrieveUrl =
           "http://localhost:8042/dicom-web/studies/" \o items[k].studyInstanceUid

\* The answer of the failing request of C16: the URL of study 1.2.1, whose
\* part the store refused, while the part stored is of study 1.2.2
UrlOfFailedPart ==
  /\ stowAnswer.status = 200
  /\ Len(items) = 2
  /\ items[1].studyInstanceUid = "1.2.1"
  /\ items[2].studyInstanceUid = "1.2.2"
  /\ written = <<[part |-> 1, ok |-> "false"], [part |-> 2, ok |-> "true"]>>
  /\ stowAnswer.retrieveUrl = "http://localhost:8042/dicom-web/studies/1.2.1"

(* ------------------------------------------------------------------ *)
(* RetrieveFromServer, the WADO-RS retrieve client: its inputs         *)
(* ------------------------------------------------------------------ *)

\* The entries of "Resources" in the body of a retrieve request
RetrieveResources ==
  {JString("1.2.1"),
   JObject([Series |-> JString("1.3.1")]),
   JObject([Study |-> JString("")]),
   JObject([Study |-> JNull]),
   JObject([Study |-> JString("1.2.1")]),
   JObject([Study |-> JString("1.2.1"), Series |-> JString("1.3.1")]),
   JObject([Study |-> JString("1.2.1"), Series |-> JString("1.3.1"),
            Instance |-> JString("1.4.1")]),
   JObject([Study |-> JString("1.2.1"), Instance |-> JString("1.4.1")])}

\* The bodies of the retrieve requests, as Json::Reader parses them
RetrieveBodies ==
  {[parses |-> FALSE, json |-> JNull],
   [parses |-> TRUE, json |-> JString("Resources")],
   [parses |-> TRUE, json |-> JObject(<< >>)],
   [parses |-> TRUE, json |-> JObject([Resources |-> JString("1.2.1")])]}
  \cup {[parses |-> TRUE, json |-> JObject([Resources |-> JArray(r)])] :
          r \in BoundedSeq(RetrieveResources, MaxResources)}

\* The values of the Content-Type header in the answers of the remote server
RemoteContentTypes ==
  {"multipart/related; type=application/dicom; boundary=abc123",
   "multipart/related; type=\"application/dicom\"; boundary=abc123",
   " Multipart/Related ; Type = \"Application/DICOM\" ; Boundary = Abc123 ",
   "multipart/related; type=application/json; boundary=abc123",
   "multipart/related; type=\"\"application/dicom\"\"; boundary=abc123",
   "multipart/related; boundary=abc123",
   "multipart/related; type=application/dicom",
   "multipart/related; type=application/dicom; boundary=",
   "multipart/related; type=application/dicom; boundary=abc123; type=text/xml",
   "multipart/form-data; type=application/dicom; boundary=abc123",
   "application/dicom",
   ""}

\* The headers of the answers of the remote server, in the order of the
\* std::map that CallServer fills
RemoteHeaders ==
  {<< >>, <<[name |-> "Content-Length", value |-> "1024"]>>}
  \cup {<<[name |-> "Content-Type", value |-> v]>> : v \in RemoteContentTypes}
  \cup {<<[name |-> "Content-Length", value |-> "1024"],
          [name |-> "content-type ", value |-> v]>> :
          v \in {"multipart/related; type=application/dicom; boundary=abc123",
                 "text/html"}}

\* What OrthancPlugins::CallServer can do with a GET: throw (the HTTP
\* exchange failed), or return the headers the remote answered
GetOutcomes ==
  {[threw |-> TRUE, headers |-> << >>]}
    \cup {[threw |-> FALSE, headers |-> h] : h \in RemoteHeaders}

\* The Content-Type headers of the parts of the answers ("" for a part
\* without one)
RemotePartContentTypes == PartContentTypes \cup {"Application/DICOM"}

\* What OrthancPlugins::ParseMultipartBody can do with the body of an
\* answer: throw, or return the parts it decoded
DecodeOutcomes ==
  {[threw |-> TRUE, parts |-> << >>]}
    \cup {[threw |-> FALSE, parts |-> [k \in DOMAIN types |-> [contentType |-> types[k]]]] :
            types \in BoundedSeq(RemotePartContentTypes, MaxParts)}

\* The identifiers the store gives to the instances, in the order of
\* std::set<std::string>
StoreIdsAscending == <<"0a1b", "9f3e">>

StoreIds == {StoreIdsAscending[k] : k \in DOMAIN StoreIdsAscending}

\* What MemoryBuffer::ToJson yields after the POST of a part to /instances
PostAnswers ==
  {JObject([ID |-> JString(id), Status |-> JString("Success")]) : id \in StoreIds}
    \cup {JObject([Status |-> JString("Success")]),
          JObject([ID |-> JNull]),
          JArray(<< >>)}

(* ------------------------------------------------------------------ *)
(* RetrieveFromServerInternal                                          *)
(* ------------------------------------------------------------------ *)

\* GetStringValue: whether the key is there, the string under it, and the
\* exception thrown ("none" without exception)
GetStringValue(json, key) ==
  IF json.type # "object"
  THEN [found |-> FALSE, target |-> "", err |-> "BadFileFormat"]
  ELSE IF ~isMember(json, key)
  THEN [found |-> FALSE, target |-> "", err |-> "none"]
  ELSE IF json.members[key].type # "string"
  THEN [found |-> FALSE, target |-> "", err |-> "BadFileFormat"]
  ELSE [found |-> TRUE, target |-> json.members[key].value, err |-> "none"]

\* Variant of RetrieveUri that names the instance without its series
RetrieveUri_InstanceAlone(entry) ==
  LET study == GetStringValue(entry, "Study")
      series == GetStringValue(entry, "Series")
      instance == GetStringValue(entry, "Instance")
  IN  IF entry.type # "object" THEN [err |-> "BadFileFormat", uri |-> ""]
      ELSE IF study.err # "none" \/ ~study.found \/ study.target = ""
      THEN [err |-> "BadFileFormat", uri |-> ""]
      ELSE IF series.err # "none" \/ instance.err # "none"
      THEN [err |-> "BadFileFormat", uri |-> ""]
      ELSE [err |-> "none",
            uri |-> "studies/" \o study.target \o
                    (IF series.target # ""
                     THEN "/series/" \o series.target ELSE "") \o
                    (IF instance.target # ""
                     THEN "/instances/" \o instance.target ELSE "")]

\* The first lines of RetrieveFromServerInternal: the exception thrown for
\* the entry of Resources ("none" without exception), and the URI to GET
RetrieveUri(entry) ==
  LET study == GetStringValue(entry, "Study")
      series == GetStringValue(entry, "Series")
      instance == GetStringValue(entry, "Instance")
  IN  IF entry.type # "object" THEN [err |-> "BadFileFormat", uri |-> ""]
      ELSE IF study.err # "none" \/ ~study.found \/ study.target = ""
      THEN [err |-> "BadFileFormat", uri |-> ""]
      ELSE IF series.err # "none" \/ instance.err # "none"
      THEN [err |-> "BadFileFormat", uri |-> ""]
      ELSE IF series.target = "" /\ instance.target # ""
      THEN [err |-> "BadFileFormat", uri |-> ""]
      ELSE [err |-> "none",
            uri |-> "studies/" \o study.target \o
                    (IF series.target # ""
                     THEN "/series/" \o series.target \o
                          (IF instance.target # ""
                           THEN "/instances/" \o instance.target ELSE "")
                     ELSE "")]

\* The tokens of the Content-Type among the headers of the answer: those of
\* the first header whose name, without spaces and in lower case, is
\* "content-type"; none without such a header
ContentTypeTokens(headers) ==
  LET named == {k \in 1..Len(headers) :
                  LowerCase(StripSpaces(headers[k].name)) = "content-type"}
  IN  IF named = {} THEN << >>
      ELSE TokenizeString(headers[CHOOSE k \in named : \A j \in named : k <= j].value,
                          ";")

\* The parameter of the Content-Type that the loop over its tokens keeps
\* under a name: the second piece, without spaces, of the last token made
\* of two pieces whose first is the name; "" without such a token
ParameterOf(tokens, name) ==
  LET Pieces(k) == TokenizeString(tokens[k], "=")
      named == {k \in 2..Len(tokens) :
                  /\ Len(Pieces(k)) = 2
                  /\ LowerCase(StripSpaces(Pieces(k)[1])) = name}
  IN  IF named = {} THEN ""
      ELSE StripSpaces(Pieces(CHOOSE k \in named : \A j \in named : j <= k)[2])

\* Variant of CheckAnswerHeaders that takes any type of multipart
CheckAnswerHeaders_AnyType(headers) ==
  LET tokens == ContentTypeTokens(headers)
      boundaryOf == ParameterOf(tokens, "boundary")
  IN  IF tokens = << >>
      THEN [err |-> "NetworkProtocol", boundary |-> ""]
      ELSE IF StripSpaces(LowerCase(tokens[1])) # "multipart/related"
      THEN [err |-> "NetworkProtocol", boundary |-> ""]
      ELSE IF boundaryOf = ""
      THEN [err |-> "NetworkProtocol", boundary |-> ""]
      ELSE [err |-> "none", boundary |-> boundaryOf]

\* The checks of RetrieveFromServerInternal on the headers of the answer:
\* the exception thrown ("none" without exception) and the boundary
CheckAnswerHeaders(headers) ==
  LET tokens == ContentTypeTokens(headers)
      type == LowerCase(Unquote(ParameterOf(tokens, "type")))
      boundaryOf == ParameterOf(tokens, "boundary")
  IN  IF tokens = << >>
      THEN [err |-> "NetworkProtocol", boundary |-> ""]
      ELSE IF StripSpaces(LowerCase(tokens[1])) # "multipart/related"
      THEN [err |-> "NetworkProtocol", boundary |-> ""]
      ELSE IF type # "application/dicom"
      THEN [err |-> "NetworkProtocol", boundary |-> ""]
      ELSE IF boundaryOf = ""
      THEN [err |-> "NetworkProtocol", boundary |-> ""]
      ELSE [err |-> "none", boundary |-> boundaryOf]

\* Variant of IsDicomPart that takes a part without content type
IsDicomPart_EmptyToo(part) == part.contentType \in {"", "application/dicom"}

\* The check of RetrieveFromServerInternal on a part
IsDicomPart(part) == part.contentType = "application/dicom"

\* Variant of Ascending that lists the identifiers from the last
Ascending_Descending(ids) ==
  LET up == SelectSeq(StoreIdsAscending, LAMBDA id : id \in ids)
  IN  [k \in 1..Len(up) |-> up[Len(up) + 1 - k]]

\* The identifiers of a set in the order of std::set<std::string>
Ascending(ids) == SelectSeq(StoreIdsAscending, LAMBDA id : id \in ids)

(* ------------------------------------------------------------------ *)
(* RetrieveFromServer                                                  *)
(* ------------------------------------------------------------------ *)

RetrieveInit ==
  /\ ClientIdle
  /\ StowIdle
  /\ CodecIdle
  /\ ConcurrentIdle
  /\ wadoPc = "start"
  /\ retrieveMethod \in {"POST", "GET"}
  /\ retrieveBody \in RetrieveBodies
  /\ retrieveI = 0
  /\ getLog = << >>
  /\ answerHeaders = << >>
  /\ wadoParts = << >>
  /\ wadoP = 0
  /\ posted = 0
  /\ wadoInstances = {}
  /\ wadoResult = JNull
  /\ wadoError = "none"
  /\ wadoAnswer = NoStowAnswer

\* The entries of "Resources" in the body of the request
RetrieveEntries == retrieveBody.json.members.Resources.items

\* RetrieveFromServer up to its loop over Resources
RetrieveBegin ==
  /\ wadoPc = "start"
  /\ IF retrieveMethod # "POST"
     THEN /\ wadoPc' = "done"
          /\ wadoAnswer' = [status |-> 405]
          /\ UNCHANGED <<retrieveI, wadoError>>
     ELSE IF \/ ~retrieveBody.parses
             \/ retrieveBody.json.type # "object"
             \/ ~isMember(retrieveBody.json, "Resources")
             \/ retrieveBody.json.members.Resources.type # "array"
     THEN /\ wadoPc' = "error"
          /\ wadoError' = "BadFileFormat"
          /\ UNCHANGED <<retrieveI, wadoAnswer>>
     ELSE /\ wadoPc' = "resource"
          /\ retrieveI' = 1
          /\ UNCHANGED <<wadoError, wadoAnswer>>
  /\ UNCHANGED <<client, stow, codec, concurrent, retrieveMethod, retrieveBody, getLog,
                 answerHeaders, wadoParts, wadoP, posted, wadoInstances,
                 wadoResult>>

\* RetrieveFromServerInternal from its call for an entry of Resources to
\* its checks on the headers of the answer of the remote server
RetrieveGet ==
  /\ wadoPc = "resource"
  /\ retrieveI <= Len(RetrieveEntries)
  /\ LET target == RetrieveUri(RetrieveEntries[retrieveI])
     IN  IF target.err # "none"
         THEN /\ wadoPc' = "error"
              /\ wadoError' = target.err
              /\ UNCHANGED <<getLog, answerHeaders>>
         ELSE /\ getLog' = Append(getLog, target.uri)
              /\ \E outcome \in GetOutcomes :
                   IF outcome.threw
                   THEN /\ wadoPc' = "error"
                        /\ wadoError' = "HttpError"
                        /\ answerHeaders' = answerHeaders
                   ELSE /\ answerHeaders' = outcome.headers
                        /\ LET check == CheckAnswerHeaders(outcome.headers)
                           IN  IF check.err # "none"
                               THEN /\ wadoPc' = "error"
                                    /\ wadoError' = check.err
                               ELSE /\ wadoPc' = "decode"
                                    /\ wadoError' = wadoError
  /\ UNCHANGED <<client, stow, codec, concurrent, retrieveMethod, retrieveBody, retrieveI,
                 wadoParts, wadoP, posted, wadoInstances, wadoResult,
                 wadoAnswer>>

\* RetrieveFromServerInternal: the decoding of the body of the answer,
\* after which the headers are not read any more
RetrieveDecode ==
  /\ wadoPc = "decode"
  /\ \E outcome \in DecodeOutcomes :
       IF outcome.threw
       THEN /\ wadoPc' = "error"
            /\ wadoError' = "NetworkProtocol"
            /\ UNCHANGED <<answerHeaders, wadoParts, wadoP>>
       ELSE /\ wadoPc' = "parts"
            /\ wadoParts' = outcome.parts
            /\ wadoP' = 1
            /\ answerHeaders' = << >>
            /\ wadoError' = wadoError
  /\ UNCHANGED <<client, stow, codec, concurrent, retrieveMethod, retrieveBody, retrieveI,
                 getLog, posted, wadoInstances, wadoResult, wadoAnswer>>

\* One iteration of the loop of RetrieveFromServerInternal over the parts
RetrievePart ==
  /\ wadoPc = "parts"
  /\ wadoP <= Len(wadoParts)
  /\ IF ~IsDicomPart(wadoParts[wadoP])
     THEN /\ wadoPc' = "error"
          /\ wadoError' = "NetworkProtocol"
          /\ UNCHANGED <<wadoP, posted, wadoInstances, wadoResult>>
     ELSE /\ posted' = posted + 1
          /\ \E stored \in PostAnswers :
               /\ wadoResult' = stored
               /\ IF \/ stored.type # "object"
                     \/ ~isMember(stored, "ID")
                     \/ stored.members.ID.type # "string"
                  THEN /\ wadoPc' = "error"
                       /\ wadoError' = "InternalError"
                       /\ UNCHANGED <<wadoP, wadoInstances>>
                  ELSE /\ wadoInstances' =
                            wadoInstances \cup {stored.members.ID.value}
                       /\ wadoP' = wadoP + 1
                       /\ UNCHANGED <<wadoPc, wadoError>>
  /\ UNCHANGED <<client, stow, codec, concurrent, retrieveMethod, retrieveBody, retrieveI,
                 getLog, answerHeaders, wadoParts, wadoAnswer>>

\* The return of RetrieveFromServerInternal to the loop over Resources
RetrieveReturn ==
  /\ wadoPc = "parts"
  /\ wadoP > Len(wadoParts)
  /\ wadoPc' = "resource"
  /\ retrieveI' = retrieveI + 1
  /\ wadoParts' = << >>
  /\ wadoP' = 0
  /\ wadoResult' = JNull
  /\ UNCHANGED <<client, stow, codec, concurrent, retrieveMethod, retrieveBody, getLog,
                 answerHeaders, posted, wadoInstances, wadoError, wadoAnswer>>

\* The end of RetrieveFromServer: the identifiers are answered
RetrieveAnswer ==
  /\ wadoPc = "resource"
  /\ retrieveI > Len(RetrieveEntries)
  /\ wadoPc' = "done"
  /\ wadoAnswer' = [status |-> 200, Instances |-> Ascending(wadoInstances)]
  /\ UNCHANGED <<client, stow, codec, concurrent, retrieveMethod, retrieveBody, retrieveI,
                 getLog, answerHeaders, wadoParts, wadoP, posted,
                 wadoInstances, wadoResult, wadoError>>

RetrieveNext ==
  \/ RetrieveBegin
  \/ RetrieveGet
  \/ RetrieveDecode
  \/ RetrievePart
  \/ RetrieveReturn
  \/ RetrieveAnswer

RetrieveSpec == RetrieveInit /\ [][RetrieveNext]_vars

(* ------------------------------------------------------------------ *)
(* C20                                                                 *)
(* ------------------------------------------------------------------ *)

\* The headers of an answer with a Content-Type whose media type is
\* multipart/related, whose type is application/dicom in any case and
\* within at most one pair of quotes, and whose boundary is not empty
WellFramedAnswers ==
  {<<[name |-> "Content-Type",
      value |-> "multipart/related; type=application/dicom; boundary=abc123"]>>,
   <<[name |-> "Content-Type",
      value |-> "multipart/related; type=\"application/dicom\"; boundary=abc123"]>>,
   <<[name |-> "Content-Type",
      value |-> " Multipart/Related ; Type = \"Application/DICOM\" ; Boundary = Abc123 "]>>,
   <<[name |-> "Content-Length", value |-> "1024"],
     [name |-> "content-type ",
      value |-> "multipart/related; type=application/dicom; boundary=abc123"]>>}

\* A step in which the remote server answers the GET for an entry
AnswerReceived ==
  /\ wadoPc = "resource"
  /\ Len(getLog') = Len(getLog) + 1
  /\ wadoError' # "HttpError"

\* C20: when the remote server answers the GET for an entry of Resources
\* with headers that are not well framed (no Content-Type, a media type
\* other than multipart/related, a type other than application/dicom, no
\* boundary or an empty one), the request ends at once with the exception
\* NetworkProtocol and nothing has been posted to the store; with well
\* framed headers it goes on to decode the body.  A part is posted to the
\* store only from the loop over the decoded parts, which is entered only
\* after the decoding of an answer with well framed headers; a request
\* ended by an exception does nothing more; and no request ends with
\* another refusal of a media type (an HTTP status 400 or 415).
C20_AnswerFraming ==
  /\ [][AnswerReceived =>
          IF answerHeaders' \in WellFramedAnswers
          THEN wadoPc' = "decode" /\ wadoError' = "none" /\ posted' = posted
          ELSE wadoPc' = "error" /\ wadoError' = "NetworkProtocol"
               /\ posted' = posted
       ]_vars
  /\ [][posted' # posted => wadoPc = "parts"]_vars
  /\ [][(wadoPc # "parts" /\ wadoPc' = "parts") =>
          (wadoPc = "decode" /\ answerHeaders \in WellFramedAnswers)]_vars
  /\ [][wadoPc # "error"]_vars
  /\ [](/\ wadoError \in {"none", "BadFileFormat", "HttpError",
                          "NetworkProtocol", "InternalError"}
        /\ wadoAnswer.status \in {0, 200, 405})

\* C20 witness: the answer for the first entry was stored, the answer for
\* the second has the type application/json and ended the request with
\* NetworkProtocol, nothing more being stored
C20_Witness ==
  /\ wadoPc = "error"
  /\ wadoError = "NetworkProtocol"
  /\ retrieveI = 2
  /\ Len(getLog) = 2
  /\ posted = 1
  /\ answerHeaders =
       <<[name |-> "Content-Type",
          value |-> "multipart/related; type=application/json; boundary=abc123"]>>

\* C20 witness of the missing Content-Type
C20_WitnessNoContentType ==
  /\ wadoPc = "error"
  /\ wadoError = "NetworkProtocol"
  /\ Len(getLog) = 1
  /\ answerHeaders = <<[name |-> "Content-Length", value |-> "1024"]>>
  /\ posted = 0

(* ------------------------------------------------------------------ *)
(* C21                                                                 *)
(* ------------------------------------------------------------------ *)

\* A step of the loop of RetrieveFromServerInternal over the parts
PartStep == wadoPc = "parts" /\ wadoP <= Len(wadoParts)

\* C21: a step of the loop over the decoded parts whose part has a content
\* type other than "application/dicom" as it is spelled (none at all and
\* another case included) ends the request with the exception
\* NetworkProtocol, posts nothing to the store and adds no identifier; a
\* step whose part is application/dicom posts it to the store.  So every
\* part the loop has gone past is application/dicom.
C21_NonDicomPartRejected ==
  /\ [][PartStep =>
          IF wadoParts[wadoP].contentType # "application/dicom"
          THEN /\ wadoPc' = "error"
               /\ wadoError' = "NetworkProtocol"
               /\ posted' = posted
               /\ wadoInstances' = wadoInstances
          ELSE posted' = posted + 1
       ]_vars
  /\ [](wadoPc = "parts" =>
          \A k \in 1..(wadoP - 1) :
            wadoParts[k].contentType = "application/dicom")

\* C21 witness: after a first part of type application/dicom was stored, a
\* second part without content type ended the request with NetworkProtocol
C21_Witness ==
  /\ wadoPc = "error"
  /\ wadoError = "NetworkProtocol"
  /\ Len(wadoParts) = 2
  /\ wadoP = 2
  /\ wadoParts[1].contentType = "application/dicom"
  /\ wadoParts[2].contentType = ""
  /\ posted = 1

(* ------------------------------------------------------------------ *)
(* C22                                                                 *)
(* ------------------------------------------------------------------ *)

\* The order of std::string on the identifiers of the store
Alphabet == "0123456789abcdefghijklmnopqrstuvwxyz"

Rank(c) == CHOOSE k \in 1..Len(Alphabet) : SubSeq(Alphabet, k, k) = c

RECURSIVE Before(_, _)
Before(a, b) ==
  IF a = "" THEN b # ""
  ELSE IF b = "" THEN FALSE
  ELSE IF Head(a) = Head(b) THEN Before(Tail(a), Tail(b))
  ELSE Rank(Head(a)) < Rank(Head(b))

\* A step of the loop over the parts that posts its part to the store
PostStep == PartStep /\ posted' = posted + 1

\* C22: a step that posts a part to the store adds the identifier the
\* store answered to the identifiers retrieved, or ends the request with
\* InternalError if the store answered none; the identifiers retrieved
\* change in no other step; and the answer of a request that succeeds
\* lists the identifiers retrieved, each once, in ascending order.
C22_InstancesAnswered ==
  /\ [][PostStep =>
          IF NamesInstance(wadoResult')
          THEN /\ wadoPc' = "parts"
               /\ wadoInstances' =
                    wadoInstances \cup {wadoResult'.members["ID"].value}
          ELSE /\ wadoPc' = "error"
               /\ wadoError' = "InternalError"
               /\ wadoInstances' = wadoInstances
       ]_vars
  /\ [][wadoInstances' # wadoInstances => PostStep]_vars
  /\ [](wadoAnswer.status = 200 =>
          LET listed == wadoAnswer.Instances
          IN  /\ {listed[k] : k \in 1..Len(listed)} = wadoInstances
              /\ Len(listed) = Cardinality(wadoInstances)
              /\ \A k \in 1..(Len(listed) - 1) : Before(listed[k], listed[k + 1]))

\* C22 witness: two resources were retrieved and three parts stored, two of
\* them under the same identifier, and the answer lists the two identifiers
\* in ascending order
C22_Witness ==
  /\ wadoAnswer.status = 200
  /\ Len(getLog) = 2
  /\ posted = 3
  /\ wadoAnswer.Instances = <<"0a1b", "9f3e">>

(* ------------------------------------------------------------------ *)
(* C23                                                                 *)
(* ------------------------------------------------------------------ *)

\* A step in which RetrieveFromServerInternal is called for an entry
EntryStep == wadoPc = "resource" /\ retrieveI <= Len(RetrieveEntries)

\* The string an entry gives under a key, "" when it gives none
Given(entry, key) ==
  IF key \in DOMAIN entry.members /\ entry.members[key].type = "string"
  THEN entry.members[key].value
  ELSE ""

\* An entry that is a JSON object with a non-empty Study and no Instance
\* without a Series
WellFormedEntry(entry) ==
  /\ entry.type = "object"
  /\ Given(entry, "Study") # ""
  /\ Given(entry, "Instance") # "" => Given(entry, "Series") # ""

\* C23: the call of RetrieveFromServerInternal for an entry that is not an
\* object with a non-empty Study, or that names an Instance without a
\* Series, ends the request with BadFileFormat and sends no GET; for any
\* other entry exactly one GET is sent, to studies/{Study}, followed by
\* /series/{Series} if the entry names a series and then by
\* /instances/{Instance} if it names an instance too.
C23_RetrieveUri ==
  [][EntryStep =>
       LET entry == RetrieveEntries[retrieveI]
       IN  IF ~WellFormedEntry(entry)
           THEN /\ wadoPc' = "error"
                /\ wadoError' = "BadFileFormat"
                /\ getLog' = getLog
           ELSE LET study == Given(entry, "Study")
                    series == Given(entry, "Series")
                    instance == Given(entry, "Instance")
                    path == IF series = "" THEN "studies/" \o study
                            ELSE IF instance = ""
                            THEN "studies/" \o study \o "/series/" \o series
                            ELSE "studies/" \o study \o "/series/" \o series
                                   \o "/instances/" \o instance
                IN  /\ getLog' = Append(getLog, path)
                    /\ ~(wadoPc' = "error" /\ wadoError' = "BadFileFormat")
    ]_vars

\* C23 witness: the GET for a first entry with Study, Series and Instance was
\* sent and answered, and the second entry, with an Instance and no
\* Series, ended the request before any GET for it
C23_Witness ==
  /\ wadoPc = "error"
  /\ wadoError = "BadFileFormat"
  /\ retrieveI = 2
  /\ getLog = <<"studies/1.2.1/series/1.3.1/instances/1.4.1">>
  /\ RetrieveEntries[2] =
       JObject([Study |-> JString("1.2.1"), Instance |-> JString("1.4.1")])

(* ------------------------------------------------------------------ *)
(* The multipart codec                                                 *)
(* ------------------------------------------------------------------ *)

\* The DICOM files framed, as strings of bytes: some hold line ends, the
\* boundary "b1" or a whole delimiter line of it
Payloads == {"", "DICM", "\r\nD\r\n\r\n", "--b1", "D\r\n--b1\r\nM"}

\* The boundaries of the bodies
CodecBoundaries == {"b1", "6f1c2a9e-0b1d"}

\* The body SendStowChunks posts for the files, with the boundary `token`:
\* for each file the two chunks StowClient adds, then the terminator
RECURSIVE EncodeBody(_, _)
EncodeBody(files, token) ==
  IF files = << >> THEN CloseDelimiter(token)
  ELSE PartHeader(token, Len(Head(files))) \o Head(files)
         \o EncodeBody(Tail(files), token)

\* The place of the first occurrence of sub in s, 0 if there is none
Find(s, sub) ==
  LET places == {k \in 1..(Len(s) - Len(sub) + 1) :
                   SubSeq(s, k, k + Len(sub) - 1) = sub}
  IN  IF places = {} THEN 0
      ELSE CHOOSE k \in places : \A j \in places : k <= j

\* s from the place k on
From(s, k) == SubSeq(s, k, Len(s))

\* The content type among the header lines of a part: the value of the
\* first line named Content-Type, in any case; "" without such a line
ContentTypeOf(headers) ==
  LET lines == TokenizeString(headers, "\n")
      Line(k) == TokenizeString(lines[k], "\r")[1]
      Name(k) == LowerCase(StripSpaces(TokenizeString(Line(k), ":")[1]))
      named == {k \in 1..Len(lines) :
                  /\ Len(TokenizeString(Line(k), ":")) >= 2
                  /\ Name(k) = "content-type"}
  IN  IF named = {} THEN ""
      ELSE StripSpaces(TokenizeString(
             Line(CHOOSE k \in named : \A j \in named : k <= j), ":")[2])

\* OrthancPlugins::ParseMultipartBody: the parts of a body in the order of
\* the body, or the failure to decode it.  A delimiter is a line made of
\* "--" and the boundary; what precedes the first one is skipped; the
\* delimiter followed by "--" closes the body; the header lines of a part
\* end with an empty line and its bytes with the next delimiter.
RECURSIVE DecodeSections(_, _)
DecodeSections(rest, delimiter) ==
  LET d == Find(rest, delimiter)
      after == From(rest, d + Len(delimiter))
      h == Find(after, "\r\n\r\n")
      content == From(after, h + 4)
      e == Find(content, delimiter)
      item == [contentType |-> ContentTypeOf(SubSeq(after, 1, h - 1)),
               payload |-> SubSeq(content, 1, e - 1)]
      others == DecodeSections(From(content, e), delimiter)
  IN  IF d = 0 THEN [threw |-> TRUE, parts |-> << >>]
      ELSE IF SubSeq(after, 1, 2) = "--" THEN [threw |-> FALSE, parts |-> << >>]
      ELSE IF h = 0 \/ e = 0 THEN [threw |-> TRUE, parts |-> << >>]
      ELSE IF others.threw THEN others
      ELSE [threw |-> FALSE, parts |-> <<item>> \o others.parts]

ParseMultipartBody(bytes, token) ==
  DecodeSections("\r\n" \o bytes, "\r\n--" \o token)

CodecInit ==
  /\ ClientIdle
  /\ StowIdle
  /\ WadoIdle
  /\ ConcurrentIdle
  /\ codecPc = "start"
  /\ codecBoundary \in CodecBoundaries
  /\ codecParts \in BoundedSeq(Payloads, MaxParts)
  /\ codecBody = ""
  /\ codecItems = << >>

\* The files are framed as StowClient and SendStowChunks frame them
CodecEncode ==
  /\ codecPc = "start"
  /\ codecPc' = "encoded"
  /\ codecBody' = EncodeBody(codecParts, codecBoundary)
  /\ UNCHANGED <<client, stow, wado, concurrent, codecBoundary, codecParts, codecItems>>

\* The body is decoded with the boundary it was framed with
CodecDecode ==
  /\ codecPc = "encoded"
  /\ codecPc' = "decoded"
  /\ codecItems' = ParseMultipartBody(codecBody, codecBoundary)
  /\ UNCHANGED <<client, stow, wado, concurrent, codecBoundary, codecParts, codecBody>>

CodecNext ==
  \/ CodecEncode
  \/ CodecDecode

CodecSpec == CodecInit /\ [][CodecNext]_vars

(* ------------------------------------------------------------------ *)
(* C24                                                                 *)
(* ------------------------------------------------------------------ *)

\* sub occurs in s
Occurs(sub, s) ==
  \E k \in 1..(Len(s) - Len(sub) + 1) : SubSeq(s, k, k + Len(sub) - 1) = sub

\* The boundary occurs in none of the files framed
BoundaryUnused == \A k \in 1..Len(codecParts) : ~Occurs(codecBoundary, codecParts[k])

\* C24: when the boundary occurs in none of the files, decoding, with the
\* same boundary, the body made of the framings of the files and of the
\* terminator does not fail and yields as many parts as files, in the
\* same order, each with the content type application/dicom and the bytes
\* of its file.
C24_RoundTrip ==
  (codecPc = "decoded" /\ BoundaryUnused) =>
    /\ ~codecItems.threw
    /\ Len(codecItems.parts) = Len(codecParts)
    /\ \A k \in 1..Len(codecParts) :
         /\ codecItems.parts[k].contentType = "application/dicom"
         /\ codecItems.parts[k].payload = codecParts[k]

\* C24 witness: a file holding line ends and an empty file, framed with a
\* boundary they do not hold, were decoded
C24_Witness ==
  /\ codecPc = "decoded"
  /\ codecBoundary = "b1"
  /\ codecParts = <<"\r\nD\r\n\r\n", "">>
  /\ BoundaryUnused
  /\ Len(codecItems.parts) = 2

\* A file that holds a delimiter line of the boundary is not decoded as it
\* was framed
C24_WitnessCollision ==
  /\ codecPc = "decoded"
  /\ codecBoundary = "b1"
  /\ codecParts = <<"D\r\n--b1\r\nM">>
  /\ (codecItems.threw \/ codecItems.parts # <<[contentType |-> "application/dicom",
                                                payload |-> "D\r\n--b1\r\nM"]>>)

(* ------------------------------------------------------------------ *)
(* C26                                                                 *)
(* ------------------------------------------------------------------ *)

\* The positions of the instances added to the buffer and not sent by the
\* POSTs so far
AddedSinceFlush ==
  SubSeq(AddedPositions, Len(SentPositions(posts)) + 1, Len(AddedPositions))

\* The two chunks StowClient adds for the instance at position k
FramingOf(k) ==
  <<[kind |-> "header", boundary |-> boundary,
     length |-> FileSize(instances[k]),
     text |-> "\r\n--" \o boundary \o "\r\n" \o
              "Content-Type: application/dicom\r\n" \o
              "Content-Length: " \o ToString(FileSize(instances[k])) \o
              "\r\n\r\n",
     size |-> Len(boundary) + 59 + Len(ToString(FileSize(instances[k])))],
    [kind |-> "data", pos |-> k, id |-> instances[k],
     size |-> FileSize(instances[k])]>>

RECURSIVE FramingsOf(_)
FramingsOf(positions) ==
  IF positions = << >> THEN << >>
  ELSE FramingOf(Head(positions)) \o FramingsOf(Tail(positions))

\* C26: whenever the loop of StowClient is about to go on (between two
\* calls of SendStowChunks, and after the last one), the POSTs so far have
\* sent a prefix of the instances added, countInstances is the number of
\* instances added since the last POST, and the buffer holds the framings
\* of exactly those instances in the order they were added; so the count is
\* 0 exactly when the buffer is empty, and both are right after a POST the
\* remote accepted.
C26_Accumulator ==
  pc \in {"send", "done"} /\ method = "POST" =>
    /\ Len(SentPositions(posts)) <= Len(AddedPositions)
    /\ SentPositions(posts) = SubSeq(AddedPositions, 1, Len(SentPositions(posts)))
    /\ countInstances = Len(AddedSinceFlush)
    /\ chunks = FramingsOf(AddedSinceFlush)
    /\ countInstances = 0 <=> chunks = << >>
    /\ (posts # << >> /\ force) => (countInstances = 0 /\ chunks = << >>)

\* C26 witness: after a POST the remote accepted, one more instance was
\* added without reaching a threshold
C26_Witness ==
  /\ pc = "send"
  /\ Len(posts) = 1
  /\ countInstances = 1
  /\ Len(chunks) = 2
  /\ it = 3

\* C26 witness of the reset: right after the POST of two instances that
\* the remote accepted, the count is 0 and the buffer empty
C26_WitnessReset ==
  /\ pc = "send"
  /\ Len(posts) = 1
  /\ posts[1].count = 2
  /\ countInstances = 0
  /\ chunks = << >>

(* ------------------------------------------------------------------ *)
(* C27                                                                 *)
(* ------------------------------------------------------------------ *)

\* The start of the Content-Type header of the POSTs, up to the boundary
MimePrefix == "multipart/related; type=application/dicom; boundary="

\* The boundary a Content-Type header of a POST announces
AnnouncedBoundary(header) ==
  SubSeq(header, Len(MimePrefix) + 1, Len(header))

\* The chunks of a body are, two by two, the header of a part delimited by
\* the token and announcing the size of the file, and that file
FramedWith(framed, token) ==
  /\ Len(framed) % 2 = 0
  /\ \A j \in 1..Len(framed) :
       IF j % 2 = 1
       THEN /\ framed[j].kind = "header"
            /\ framed[j].text =
                 "\r\n--" \o token \o "\r\n" \o
                 "Content-Type: application/dicom\r\n" \o
                 "Content-Length: " \o ToString(framed[j + 1].size) \o
                 "\r\n\r\n"
       ELSE /\ framed[j].kind = "data"
            /\ framed[j].id = instances[framed[j].pos]
            /\ framed[j].size = FileSize(framed[j].id)

C28_BatchSize ==
  /\ \A k \in 1..Len(posts) :
       /\ posts[k].count >= 1
       /\ posts[k].count = Len(DataPositions(posts[k].body))
       /\ maxInstances # 0 => posts[k].count <= maxInstances
  /\ maxInstances # 0 => countInstances <= maxInstances
  /\ (maxInstances # 0 /\ pc = "send") => countInstances < maxInstances
  /\ AddedPositions = << >> => posts = << >>
  /\ (pc = "done" /\ method = "POST" /\ AddedPositions = << >>) =>
       answer = "{}\n"

\* C28 witness: under a limit of one instance, two instances went out in
\* two POSTs of one instance each, and the request was answered
C28_Witness ==
  /\ answer = "{}\n"
  /\ maxInstances = 1
  /\ stowMaxSize = 0
  /\ Len(posts) = 2
  /\ posts[1].count = 1
  /\ posts[2].count = 1

\* C28 witness of the empty list: answered "{}" without a POST
C28_WitnessEmpty ==
  /\ answer = "{}\n"
  /\ Resources = << >>
  /\ posts = << >>

\* C28 witness of the list that expands to nothing: answered "{}" without
\* a POST, nor a file read
C28_WitnessNoInstance ==
  /\ answer = "{}\n"
  /\ Resources # << >>
  /\ instances = << >>
  /\ filesRead = << >>
  /\ posts = << >>

(* ------------------------------------------------------------------ *)
(* C29                                                                 *)
(* ------------------------------------------------------------------ *)

\* The entry is a string that is not empty
NamesResource(entry) == entry.type = "string" /\ entry.value # ""

\* The request is a POST whose body has an array "Resources"
HasResources ==
  /\ method = "POST"
  /\ body.parses
  /\ body.json.type = "object"
  /\ isMember(body.json, "Resources")
  /\ body.json.members["Resources"].type = "array"

\* The last entry expanded was found at none of the four levels
UnknownAtEveryLevel ==
  /\ Len(storeLog) = 4
  /\ \A k \in 1..Len(storeLog) : ~storeLog[k].ok

\* C29: no file is read and no POST sent before ParseStowRequest has gone
\* through the whole list "Resources".  A list with an entry that is not
\* a string or is empty never gets a file read, a POST or the answer "{}";
\* an entry found at none of the four levels ends the request in error
\* UnknownResource; and a request that failed in ParseStowRequest has read
\* no file and sent no POST, whatever the entries before had added.
C29_ParseBeforeSend ==
  /\ pc \in {"start", "parse"} => (filesRead = << >> /\ posts = << >>)
  /\ (filesRead # << >> \/ posts # << >> \/ answer = "{}\n") =>
       /\ HasResources
       /\ i > Len(Resources)
       /\ \A k \in 1..Len(Resources) : NamesResource(Resources[k])
  /\ (HasResources /\ \E k \in 1..Len(Resources) : ~NamesResource(Resources[k])) =>
       (filesRead = << >> /\ posts = << >> /\ answer = "none")
  /\ UnknownAtEveryLevel => (pc = "error" /\ error = "UnknownResource")
  /\ (pc = "error" /\ HasResources /\ i <= Len(Resources)) =>
       (filesRead = << >> /\ posts = << >> /\ answer = "none")

\* C29 witness: the first entry added an instance, the second was found at
\* no level, and the request failed without a file read nor a POST
C29_Witness ==
  /\ pc = "error"
  /\ error = "UnknownResource"
  /\ i = 2
  /\ instances # << >>
  /\ UnknownAtEveryLevel
  /\ filesRead = << >>
  /\ posts = << >>

\* C29 witness of the entry that is not a string, after one that added an
\* instance
C29_WitnessNotString ==
  /\ pc = "error"
  /\ error = "BadFileFormat"
  /\ i = 2
  /\ instances # << >>
  /\ Resources[2].type # "string"
  /\ filesRead = << >>
  /\ posts = << >>

(* ------------------------------------------------------------------ *)
(* C30                                                                 *)
(* ------------------------------------------------------------------ *)

\* C30: a POST answered 415 has had none of its parts written to the
\* store.
C30_RejectedAtomically ==
  stowAnswer.status = 415 =>
    \A k \in 1..Len(written) : written[k].ok # "true"

\* What the code does instead: a POST answered 415 for its part stowI has
\* had every part before that one gone through, and posted to the store
\* unless discarded for its study; nothing from that part on was posted.
C30_RejectedAtPart ==
  (stowAnswer.status = 415 /\ FramingAccepted) =>
    /\ stowI \in 1..Len(items)
    /\ Processed = 1..(stowI - 1)
    /\ \A k \in Posted : k < stowI
    /\ \A k \in 1..(stowI - 1) :
         (expectedStudy = "" \/ items[k].studyInstanceUid = expectedStudy)
           => k \in Posted

\* C30: a state that breaks the atomicity: the first part was stored, and
\* the second answered with 415
C30_StoredThenRefused ==
  /\ stowAnswer.status = 415
  /\ stowI = 2
  /\ items[1].contentType = "application/dicom"
  /\ items[2].contentType \notin {"", "application/dicom"}
  /\ written = <<[part |-> 1, ok |-> "true"]>>

(* ------------------------------------------------------------------ *)
(* Two requests to StowClient handled at once                          *)
(* ------------------------------------------------------------------ *)

\* The lists of instances ParseStowRequest can give a call
ConcurrentLists ==
  {<< >>, <<"i1">>, <<"i1", "i2">>, <<"i2", "i1">>, <<"i1", "i1", "i2">>}

ConcurrentInit ==
  /\ ClientIdle
  /\ StowIdle
  /\ WadoIdle
  /\ CodecIdle
  /\ pcOf = [q \in Requests |-> "start"]
  /\ instancesOf \in [Requests -> ConcurrentLists]
  /\ boundaryAt = [q \in Requests |-> ""]
  /\ itOf = [q \in Requests |-> 0]
  /\ chunksOf = [q \in Requests |-> << >>]
  /\ countInstancesOf = [q \in Requests |-> 0]
  /\ forceOf = [q \in Requests |-> FALSE]
  /\ postsOf = [q \in Requests |-> << >>]
  /\ generated = 0
  /\ limits \in [maxInstances : {0, 2}, stowMaxSize : {0, 1}]
  /\ absent \in {{}, {"i1"}}

\* The start of the call q of StowClient: its boundary, from the UUID
\* generator of the host, and its list of instances
ConcurrentBegin(q) ==
  /\ pcOf[q] = "start"
  /\ generated' = generated + 1
  /\ boundaryAt' = [boundaryAt EXCEPT ![q] = Uuid(generated + 1)]
  /\ itOf' = [itOf EXCEPT ![q] = 1]
  /\ pcOf' = [pcOf EXCEPT ![q] = "send"]
  /\ UNCHANGED <<client, stow, wado, codec, instancesOf, chunksOf,
                 countInstancesOf, forceOf, postsOf, limits, absent>>

\* SendStowChunks in the call q, up to the POST: the arguments chunks and
\* countInstances are references to the local variables of the call q
ConcurrentSendStowChunks(q, chunksIn, countIn, forceIn) ==
  /\ forceOf' = [forceOf EXCEPT ![q] = forceIn]
  /\ countInstancesOf' = [countInstancesOf EXCEPT ![q] = countIn]
  /\ IF FlushCondition(forceIn, countIn, GetNumBytes(chunksIn),
                       limits.maxInstances, limits.stowMaxSize * 1024 * 1024)
     THEN /\ chunksOf' =
               [chunksOf EXCEPT
                  ![q] = Flatten(Append(chunksIn, CloseChunk(boundaryAt[q])))]
          /\ postsOf' =
               [postsOf EXCEPT
                  ![q] = Append(@, [uri |-> "studies",
                                    contentType |->
                                      "multipart/related; type=application/dicom; boundary="
                                        \o boundaryAt[q],
                                    body |-> Append(chunksIn, CloseChunk(boundaryAt[q])),
                                    count |-> countIn])]
          /\ pcOf' = [pcOf EXCEPT ![q] = "validate"]
     ELSE /\ chunksOf' = [chunksOf EXCEPT ![q] = chunksIn]
          /\ postsOf' = postsOf
          /\ pcOf' = [pcOf EXCEPT ![q] = IF forceIn THEN "done" ELSE "send"]

\* Variant of ConcurrentSendInstance in which the count of instances is
\* one counter for all the calls
ConcurrentSendInstance_SharedCount(q) ==
  /\ pcOf[q] = "send"
  /\ itOf[q] <= Len(instancesOf[q])
  /\ itOf' = [itOf EXCEPT ![q] = @ + 1]
  /\ LET id == instancesOf[q][itOf[q]]
         size == FileSize(id)
         others == CHOOSE o \in Requests : o # q
     IN  \E got \in IF id \in absent THEN {"false"} ELSE {"file", "throws"} :
           CASE got = "file" ->
                  ConcurrentSendStowChunks(
                    q,
                    chunksOf[q] \o <<HeaderChunk(boundaryAt[q], size),
                                     DataChunk(itOf[q], id, size)>>,
                    countInstancesOf[q] + countInstancesOf[others] + 1, FALSE)
             [] got = "false" ->
                  UNCHANGED <<chunksOf, countInstancesOf, forceOf, postsOf, pcOf>>
             [] OTHER ->
                  /\ pcOf' = [pcOf EXCEPT ![q] = "error"]
                  /\ UNCHANGED <<chunksOf, countInstancesOf, forceOf, postsOf>>
  /\ UNCHANGED <<client, stow, wado, codec, instancesOf, boundaryAt, generated,
                 limits, absent>>

\* One iteration of the loop of the call q of StowClient
ConcurrentSendInstance(q) ==
  /\ pcOf[q] = "send"
  /\ itOf[q] <= Len(instancesOf[q])
  /\ itOf' = [itOf EXCEPT ![q] = @ + 1]
  /\ LET id == instancesOf[q][itOf[q]]
         size == FileSize(id)
     IN  \E got \in IF id \in absent THEN {"false"} ELSE {"file", "throws"} :
           CASE got = "file" ->
                  ConcurrentSendStowChunks(
                    q,
                    chunksOf[q] \o <<HeaderChunk(boundaryAt[q], size),
                                     DataChunk(itOf[q], id, size)>>,
                    countInstancesOf[q] + 1, FALSE)
             [] got = "false" ->
                  UNCHANGED <<chunksOf, countInstancesOf, forceOf, postsOf, pcOf>>
             [] OTHER ->
                  /\ pcOf' = [pcOf EXCEPT ![q] = "error"]
                  /\ UNCHANGED <<chunksOf, countInstancesOf, forceOf, postsOf>>
  /\ UNCHANGED <<client, stow, wado, codec, instancesOf, boundaryAt, generated,
                 limits, absent>>

\* The last call of SendStowChunks of the call q of StowClient
ConcurrentFinalFlush(q) ==
  /\ pcOf[q] = "send"
  /\ itOf[q] > Len(instancesOf[q])
  /\ ConcurrentSendStowChunks(q, chunksOf[q], countInstancesOf[q], TRUE)
  /\ UNCHANGED <<client, stow, wado, codec, instancesOf, boundaryAt, itOf,
                 generated, limits, absent>>

\* SendStowChunks in the call q, from the answer of the remote on
ConcurrentValidate(q) ==
  /\ pcOf[q] = "validate"
  /\ \E outcome \in CallServerOutcomes(countInstancesOf[q]) :
       IF \/ outcome.threw
          \/ ValidateAnswer(outcome.body, countInstancesOf[q]).err # "none"
       THEN /\ pcOf' = [pcOf EXCEPT ![q] = "error"]
            /\ countInstancesOf' = countInstancesOf
       ELSE /\ pcOf' = [pcOf EXCEPT ![q] = IF forceOf[q] THEN "done" ELSE "send"]
            /\ countInstancesOf' = [countInstancesOf EXCEPT ![q] = 0]
  /\ UNCHANGED <<client, stow, wado, codec, instancesOf, boundaryAt, itOf,
                 chunksOf, forceOf, postsOf, generated, limits, absent>>

ConcurrentNext ==
  \E q \in Requests :
    \/ ConcurrentBegin(q)
    \/ ConcurrentSendInstance(q)
    \/ ConcurrentFinalFlush(q)
    \/ ConcurrentValidate(q)

ConcurrentSpec == ConcurrentInit /\ [][ConcurrentNext]_vars

(* ------------------------------------------------------------------ *)
(* C25                                                                 *)
(* ------------------------------------------------------------------ *)

\* The batches a call of StowClient sends when it runs alone over a list
\* and every POST is accepted: the loop of StowClient from the position k
\* on, with the buffer and the count it has there.  A batch is the
\* positions of the instances of a POST and the count of the POST.
RECURSIVE AloneFrom(_, _, _, _)
AloneFrom(list, k, buffer, count) ==
  LET MaxBytes == limits.stowMaxSize * 1024 * 1024
      Batch(sent, n) == [positions |-> DataPositions(sent), count |-> n]
      added == buffer \o <<HeaderChunk(Uuid(1), FileSize(list[k])),
                           DataChunk(k, list[k], FileSize(list[k]))>>
  IN  IF k > Len(list)
      THEN IF FlushCondition(TRUE, count, GetNumBytes(buffer),
                             limits.maxInstances, MaxBytes)
           THEN <<Batch(buffer, count)>>
           ELSE << >>
      ELSE IF list[k] \in absent
      THEN AloneFrom(list, k + 1, buffer, count)
      ELSE IF FlushCondition(FALSE, count + 1, GetNumBytes(added),
                             limits.maxInstances, MaxBytes)
      THEN <<Batch(added, count + 1)>> \o AloneFrom(list, k + 1, << >>, 0)
      ELSE AloneFrom(list, k + 1, added, count + 1)

Alone(list) == AloneFrom(list, 1, << >>, 0)

\* The batches the call q has sent
BatchesOf(q) ==
  [k \in 1..Len(postsOf[q]) |->
     [positions |-> DataPositions(postsOf[q][k].body),
      count |-> postsOf[q][k].count]]

\* The call q has drawn its boundary
Begun(q) == pcOf[q] # "start"

\* C25: of two calls of StowClient handled at once, under every
\* interleaving of their steps, each has sent the first batches, instances
\* and counts, of those it sends when it runs alone over its list, and all
\* of them once it has answered; the two calls have different boundaries,
\* every POST of a call carries the boundary of that call and instances of
\* the list of that call only, and the buffer and the count of a call hold
\* instances of that call only.
C25_NoInterference ==
  /\ \A q \in Requests :
       /\ Len(BatchesOf(q)) <= Len(Alone(instancesOf[q]))
       /\ BatchesOf(q) = SubSeq(Alone(instancesOf[q]), 1, Len(BatchesOf(q)))
       /\ pcOf[q] = "done" => BatchesOf(q) = Alone(instancesOf[q])
       /\ \A k \in 1..Len(postsOf[q]) :
            /\ postsOf[q][k].contentType =
                 "multipart/related; type=application/dicom; boundary=" \o boundaryAt[q]
            /\ \A c \in 1..Len(postsOf[q][k].body) :
                 LET chunk == postsOf[q][k].body[c]
                 IN  IF chunk.kind = "data"
                     THEN chunk.id = instancesOf[q][chunk.pos]
                     ELSE chunk.boundary = boundaryAt[q]
       /\ \A c \in 1..Len(chunksOf[q]) :
            LET chunk == chunksOf[q][c]
            IN  IF chunk.kind = "data"
                THEN chunk.id = instancesOf[q][chunk.pos]
                ELSE chunk.boundary = boundaryAt[q]
       /\ pcOf[q] \in {"send", "done"} =>
            countInstancesOf[q] = Len(DataPositions(chunksOf[q]))
  /\ \A q, o \in Requests :
       (q # o /\ Begun(q) /\ Begun(o)) => boundaryAt[q] # boundaryAt[o]

\* C25 witness: both calls have answered, each after a POST of two
\* instances and a POST of the third, under a limit of two instances
C25_Witness ==
  /\ pcOf = [q \in Requests |-> "done"]
  /\ instancesOf = (1 :> <<"i1", "i1", "i2">>) @@ (2 :> <<"i1", "i1", "i2">>)
  /\ limits = [maxInstances |-> 2, stowMaxSize |-> 0]
  /\ absent = {}
  /\ \A q \in Requests : Len(postsOf[q]) = 2
  /\ boundaryAt[1] # boundaryAt[2]

\* C25 witness of the interleaving: both calls have instances in their
\* buffers while the POST of the first is awaiting its answer and the
\* second goes on in its loop
C25_WitnessInterleaved ==
  /\ pcOf[1] = "validate"
  /\ Len(postsOf[1]) = 2
  /\ pcOf[2] = "send"
  /\ countInstancesOf[2] = 1
  /\ chunksOf[2] # << >>
  /\ Len(postsOf[2]) = 1

====
